---- MODULE Spec2Model ----
(***************************************************************************)
(* A model of ptree (src/src/ptree.c), a red-black tree of pointers whose  *)
(* nodes live in a recycling arena.  Node storage is a heap `mem' indexed  *)
(* by node address; address 0 is the static sentinel _leaf, NULL is -1.    *)
(* Handles (the void* elements) are small integers, 0 being NULL.          *)
(***************************************************************************)
EXTENDS Integers, Sequences, FiniteSets, TLC

VARIABLES root, nodes_num, allocated_nodes_num, nodes, mem, freed,
          max_nodes_to_auto_allocate, status, refset, ins_ok, rem_ok, calls,
          reserved, twin

vars == <<root, nodes_num, allocated_nodes_num, nodes, mem, freed,
          max_nodes_to_auto_allocate, status, refset, ins_ok, rem_ok, calls,
          reserved, twin>>

(***************************************************************************)
(* Bounds of the model.                                                    *)
(***************************************************************************)
\* number of distinct keys
MaxKey == 6
\* number of extra handles whose key repeats the key of another handle
NumDup == 1
\* the arena is not grown beyond this many slots
MaxCap == 8
\* largest argument of ptree_allocate_nodes that is tried
MaxAlloc == 2
\* largest growth cap that is tried
MaxAuto == 1
\* number of API calls made on the tree after its creation, a call that
\* manages storage (ptree_empty, ptree_allocate_nodes, ptree_shrink, the
\* growth cap setter) counting for ArenaCallWeight calls
MaxCalls == 7
ArenaCallWeight == 2
\* number of keys and number of calls in the replay against a new tree
MaxTwinKey == 4
MaxTwinCalls == 8
\* two trees side by side: number of keys given to the first and to the
\* second tree, number of calls made on each, and the number of nodes the
\* second tree is created with
MaxPairKey == 4
MaxPairKeyB == 2
MaxPairCalls == 6
MaxPairCallsB == 3
PairPrealloc == 2

(***************************************************************************)
(* Program constants.                                                      *)
(***************************************************************************)
max_nodes == 2147483647

leaf == 0
NULL == -1
NULLPTR == 0
\* a table entry that was never written (storage obtained from realloc)
Indeterminate == -2

Handles == 1..(MaxKey + NumDup)
Keys == 1..MaxKey

\* the key field of the element a handle points to
KeyOf(h) == IF h <= MaxKey THEN h ELSE h - MaxKey

\* the caller's element comparator (cmp_elem) and key comparator (cmp_key)
cmp(a, b) == KeyOf(a) - KeyOf(b)
cmp_key(k, b) == k - KeyOf(b)

(***************************************************************************)
(* Node flags: one word, the top bit is the colour, the rest the index.    *)
(* The word is kept as its top bit and its low bits.                       *)
(***************************************************************************)
Word(i) == [top |-> 0, low |-> i]

is_red(m, n) == m[n].flags.top # 0
is_black(m, n) == m[n].flags.top = 0

paint_red(m, n) == [m EXCEPT ![n].flags.top = 1]
paint_black(m, n) == [m EXCEPT ![n].flags.top = 0]

get_node_index(m, n) == m[n].flags.low
set_node_index(m, n, index) ==
  [m EXCEPT ![n].flags = [top |-> IF index.top = 1 \/ @.top = 1 THEN 1 ELSE 0,
                          low |-> index.low]]

copy_color(m, dst, src) ==
  IF is_red(m, src) THEN paint_red(m, dst) ELSE paint_black(m, dst)

\* links[dir] of the C code is links[dir + 1] here
has_child(m, n, dir) == m[n].links[dir + 1] # leaf
is_child(m, n, dir) == m[m[n].parent].links[dir + 1] = n

Bit(b) == IF b THEN 1 ELSE 0

_leaf == [ptr |-> NULLPTR, links |-> <<NULL, NULL>>, parent |-> NULL,
          flags |-> Word(0)]

\* the running state of one tree, as the operators thread it through
\* asserts: no assert() has failed; aborted: oom() was called;
\* ub: the operation read past the slot table, read a table entry never
\* written, or used a freed node; rotations: the calls of rotate made so
\* far by the running operation
State == [root |-> root, nodes_num |-> nodes_num,
          allocated_nodes_num |-> allocated_nodes_num,
          nodes |-> nodes, mem |-> mem, freed |-> freed,
          asserts |-> TRUE, aborted |-> FALSE, ub |-> FALSE, rotations |-> 0]

(***************************************************************************)
(* Iteration.                                                              *)
(***************************************************************************)
RECURSIVE descend_to_end(_, _, _)
\* while (node->links[dir] != leaf) node = node->links[dir];
descend_to_end(m, node, dir) ==
  IF m[node].links[dir + 1] # leaf
    THEN descend_to_end(m, m[node].links[dir + 1], dir)
    ELSE node

RECURSIVE ascend_while_child(_, _, _, _)
\* while (it != leaf && node == it->links[dir]) { node = it; it = it->parent; }
ascend_while_child(m, node, it, dir) ==
  IF it # leaf /\ node = m[it].links[dir + 1]
    THEN ascend_while_child(m, it, m[it].parent, dir)
    ELSE it

\* get_next_node that goes up one link instead of looping
get_next_node_one_up(m, node) ==
  IF m[node].links[2] # leaf
    THEN descend_to_end(m, m[node].links[2], 0)
    ELSE IF m[node].parent # leaf THEN m[node].parent ELSE NULL

get_next_node(m, node) ==
  IF m[node].links[2] # leaf
    THEN descend_to_end(m, m[node].links[2], 0)
    ELSE LET it == ascend_while_child(m, node, m[node].parent, 1)
         IN IF it # leaf THEN it ELSE NULL

\* get_prev_node that goes up one link instead of looping
get_prev_node_one_up(m, node) ==
  IF m[node].links[1] # leaf
    THEN descend_to_end(m, m[node].links[1], 1)
    ELSE IF m[node].parent # leaf THEN m[node].parent ELSE NULL

get_prev_node(m, node) ==
  IF m[node].links[1] # leaf
    THEN descend_to_end(m, m[node].links[1], 1)
    ELSE LET it == ascend_while_child(m, node, m[node].parent, 0)
         IN IF it # leaf THEN it ELSE NULL

ptree_it_next(m, node) == get_next_node(m, node)
ptree_it_prev(m, node) == get_prev_node(m, node)

(***************************************************************************)
(* Nodes management.  Slot i of the C table tree->nodes is nodes[i + 1].   *)
(***************************************************************************)
\* malloc handing out the block that follows the blocks the tree's own table
\* holds, whether or not another tree holds it
malloc_own(S) ==
  1 + Cardinality({p \in DOMAIN S.nodes : S.nodes[p] # Indeterminate})

\* the address malloc returns: a block never handed out before
malloc(S) == Cardinality(DOMAIN S.mem)

\* malloc + memset(0) of one node at address a
calloc_node(m, a) ==
  [n \in DOMAIN m \cup {a} |->
     IF n = a THEN [ptr |-> NULLPTR, links |-> <<NULL, NULL>>,
                    parent |-> NULL, flags |-> Word(0)]
     ELSE m[n]]

\* realloc of the slot table to len entries; new entries are not written
realloc_nodes(tbl, len) ==
  [p \in 1..len |-> IF p <= Len(tbl) THEN tbl[p] ELSE Indeterminate]

\* the loop body of ptree_allocate_nodes painting every node black, where
\* the code paints the new one
allocate_slot_paint_all(S, i, a) ==
  [S EXCEPT !.nodes[i + 1] = a,
            !.mem = [n \in DOMAIN S.mem \cup {a} |->
                       [set_node_index(calloc_node(S.mem, a), a, Word(i))[n]
                          EXCEPT !.flags.top = 0]]]

\* one turn of the for loop of ptree_allocate_nodes, for slot i
allocate_slot(S, i, a) ==
  [S EXCEPT !.nodes[i + 1] = a,
            !.mem = paint_black(set_node_index(calloc_node(@, a), a, Word(i)), a)]

RECURSIVE allocate_loop(_, _, _)
\* the for loop of ptree_allocate_nodes, from slot i up to slot last - 1
allocate_loop(S, i, last) ==
  IF i < last
    THEN allocate_loop(allocate_slot(S, i, malloc(S)), i + 1, last)
    ELSE S

\* A size_t value v below 2^62 is kept as high = v \div 2^31 and
\* low = v % 2^31; size_t(n) is the value of a count n <= max_nodes.
size_t(n) == [high |-> 0, low |-> n]

\* allocated + num_nodes, computed in size_t; allocated <= max_nodes
size_add(allocated, num_nodes) ==
  IF num_nodes.low > max_nodes - allocated
    THEN [high |-> num_nodes.high + 1,
          low |-> num_nodes.low - (max_nodes - allocated) - 1]
    ELSE [high |-> num_nodes.high, low |-> num_nodes.low + allocated]

\* the conversion of a size_t to ptree_size_int (uint32_t) keeps the low 32
\* bits: a word with its top bit and its low 31 bits
ptree_size_int(v) == [top |-> v.high % 2, low |-> v.low]

\* the body of ptree_allocate_nodes once nodes_to_reallocate, a
\* ptree_size_int, is computed; it exceeds max_nodes when its top bit is set
allocate_to(S, nodes_to_reallocate) ==
  IF nodes_to_reallocate.top = 1
    THEN [S EXCEPT !.aborted = TRUE]
    ELSE [allocate_loop([S EXCEPT !.nodes = realloc_nodes(@, nodes_to_reallocate.low)],
                        S.allocated_nodes_num, nodes_to_reallocate.low)
            EXCEPT !.allocated_nodes_num = nodes_to_reallocate.low]

\* num_nodes is a size_t
ptree_allocate_nodes(S, num_nodes) ==
  allocate_to(S, ptree_size_int(size_add(S.allocated_nodes_num, num_nodes)))

\* the number of slots add_node asks for when the arena is full
\* nodes_to_allocate without the cap of max_nodes_to_auto_allocate
nodes_to_allocate_uncapped(allocated, maxauto) ==
  IF allocated > 1 THEN allocated ELSE 1

nodes_to_allocate(allocated, maxauto) ==
  IF maxauto # 0 /\ allocated > maxauto THEN maxauto
  ELSE IF allocated > 1 THEN allocated ELSE 1

\* add_node growing the arena one slot before it is full
add_node_grow_early(S, maxauto) ==
  IF S.nodes_num + 1 >= S.allocated_nodes_num
    THEN ptree_allocate_nodes(S, size_t(nodes_to_allocate(S.allocated_nodes_num, maxauto)))
    ELSE S

\* the first statement of add_node: grow a full arena
add_node_grow(S, maxauto) ==
  IF S.nodes_num >= S.allocated_nodes_num
    THEN ptree_allocate_nodes(S, size_t(nodes_to_allocate(S.allocated_nodes_num, maxauto)))
    ELSE S

\* tree->nodes[tree->nodes_num] is a slot of the table that holds a node
\* which has not been freed
slot_is_live(S) ==
  /\ S.nodes_num + 1 <= Len(S.nodes)
  /\ S.nodes[S.nodes_num + 1] \in DOMAIN S.mem \ (S.freed \cup {leaf})

\* the field writes of add_node without node->parent = leaf
add_node_fields_keep_parent(m, node, ptr) ==
  [paint_red(paint_black([m EXCEPT ![node].ptr = ptr], node), node)
     EXCEPT ![node].links = <<leaf, leaf>>]

\* the field writes of add_node on the node handed out
add_node_fields(m, node, ptr) ==
  [paint_red(paint_black([m EXCEPT ![node].ptr = ptr], node), node)
     EXCEPT ![node].parent = leaf, ![node].links = <<leaf, leaf>>]

\* the rest of add_node: take the slot at nodes_num and initialise its node
add_node_take(S, ptr) ==
  IF S.aborted THEN S
  ELSE IF ~slot_is_live(S) THEN [S EXCEPT !.ub = TRUE]
  ELSE [S EXCEPT !.nodes_num = @ + 1,
                 !.mem = add_node_fields(@, S.nodes[S.nodes_num + 1], ptr)]

\* the node add_node returns is the one in the last active slot of its result
add_node(S, ptr, maxauto) == add_node_take(add_node_grow(S, maxauto), ptr)

added_node(S) == S.nodes[S.nodes_num]

\* release_node after --(tree->nodes_num), last_ptr being the last active slot
\* release_node without its last statement, *last_ptr = node
release_swap_lose(S, node, last_ptr, node_index) ==
  [S EXCEPT !.mem = set_node_index(set_node_index(@, last_ptr, Word(node_index)),
                                   node, Word(S.nodes_num)),
            !.nodes = [@ EXCEPT ![node_index + 1] = last_ptr]]

release_swap(S, node, last_ptr, node_index) ==
  [S EXCEPT !.mem = set_node_index(set_node_index(@, last_ptr, Word(node_index)),
                                   node, Word(S.nodes_num)),
            !.nodes = [@ EXCEPT ![node_index + 1] = last_ptr,
                                ![S.nodes_num + 1] = node]]

release_node(S, node) ==
  release_swap([S EXCEPT !.nodes_num = @ - 1], node, S.nodes[S.nodes_num],
               get_node_index(S.mem, node))

\* the slots ptree_shrink frees
shrink_freed(S) == {S.nodes[p] : p \in (S.nodes_num + 1)..Len(S.nodes)}

\* realloc_null: realloc of the table to zero bytes returned NULL, which
\* the C library may do when it frees the block
ptree_shrink(S, realloc_null) ==
  IF \/ Len(S.nodes) < S.allocated_nodes_num
     \/ shrink_freed(S) \cap S.freed # {}
     \/ Indeterminate \in shrink_freed(S)
    THEN [S EXCEPT !.ub = TRUE]
  ELSE IF S.nodes_num = 0 /\ realloc_null
    THEN [S EXCEPT !.freed = @ \cup shrink_freed(S), !.aborted = TRUE]
  ELSE [S EXCEPT !.freed = @ \cup shrink_freed(S),
                 !.nodes = SubSeq(@, 1, S.nodes_num)]

\* ptree_free: free(tree->nodes[i]) for every i below the capacity, then the
\* table and the tree; ub when it reads past the table, passes free() an
\* entry never written, or frees a node a second time
ptree_free(S) ==
  IF \/ Len(S.nodes) < S.allocated_nodes_num
     \/ \E p \in 1..S.allocated_nodes_num :
          S.nodes[p] \in S.freed \cup {Indeterminate}
    THEN [S EXCEPT !.ub = TRUE]
    ELSE [S EXCEPT !.freed = @ \cup {S.nodes[p] : p \in 1..S.allocated_nodes_num}]

(***************************************************************************)
(* Getters.  A node address is returned, NULL when there is none.          *)
(***************************************************************************)
RECURSIVE get_it_loop_flipped(_, _, _)
\* the loop of ptree_get_it descending to the wrong side, dir = diff < 0
get_it_loop_flipped(m, it, key) ==
  IF it # leaf
    THEN LET diff == cmp_key(key, m[it].ptr)
             dir == Bit(diff < 0)
         IN IF diff = 0 THEN it
            ELSE IF has_child(m, it, dir)
              THEN get_it_loop_flipped(m, m[it].links[dir + 1], key)
              ELSE NULL
    ELSE NULL

RECURSIVE get_it_loop(_, _, _)
get_it_loop(m, it, key) ==
  IF it # leaf
    THEN LET diff == cmp_key(key, m[it].ptr)
             dir == Bit(diff > 0)
         IN IF diff = 0 THEN it
            ELSE IF has_child(m, it, dir)
              THEN get_it_loop(m, m[it].links[dir + 1], key)
              ELSE NULL
    ELSE NULL

ptree_get_it(S, key) == get_it_loop(S.mem, S.root, key)

ptree_get(S, key) ==
  LET it == ptree_get_it(S, key)
  IN IF it # NULL THEN S.mem[it].ptr ELSE NULLPTR

RECURSIVE search_loop_flipped(_, _, _)
\* the loop of ptree_search descending to the wrong side, dir = diff < 0
search_loop_flipped(m, z, ptr) ==
  IF z # leaf
    THEN LET diff == cmp(ptr, m[z].ptr)
             dir == Bit(diff < 0)
         IN IF diff = 0 THEN z
            ELSE IF has_child(m, z, dir)
              THEN search_loop_flipped(m, m[z].links[dir + 1], ptr)
              ELSE NULL
    ELSE z

RECURSIVE search_loop_last(_, _, _)
\* the loop of ptree_search answering with the node where the descent
\* stops, where the code returns NULL
search_loop_last(m, z, ptr) ==
  IF z # leaf
    THEN LET diff == cmp(ptr, m[z].ptr)
             dir == Bit(diff > 0)
         IN IF diff = 0 THEN z
            ELSE IF has_child(m, z, dir)
              THEN search_loop_last(m, m[z].links[dir + 1], ptr)
              ELSE z
    ELSE z

RECURSIVE search_loop(_, _, _)
search_loop(m, z, ptr) ==
  IF z # leaf
    THEN LET diff == cmp(ptr, m[z].ptr)
             dir == Bit(diff > 0)
         IN IF diff = 0 THEN z
            ELSE IF has_child(m, z, dir)
              THEN search_loop(m, m[z].links[dir + 1], ptr)
              ELSE NULL
    ELSE z

\* ptree_search without its test for the empty tree
ptree_search_unguarded(S, ptr) == search_loop(S.mem, S.root, ptr)

ptree_search(S, ptr) ==
  IF S.root = leaf THEN NULL ELSE search_loop(S.mem, S.root, ptr)

\* ptree_has answering with the root whatever the element
ptree_has_root(S, ptr) == S.root

ptree_has(S, ptr) == ptree_search(S, ptr)

\* ptree_min that stops at the root's left child
ptree_min_one_step(S) ==
  IF S.root = leaf THEN NULL
  ELSE IF has_child(S.mem, S.root, 0) THEN S.mem[S.root].links[1]
  ELSE S.root

ptree_min(S) ==
  IF S.root = leaf THEN NULL ELSE descend_to_end(S.mem, S.root, 0)

ptree_max(S) ==
  IF S.root = leaf THEN NULL ELSE descend_to_end(S.mem, S.root, 1)

\* ptree_size returning the capacity
ptree_size_of_capacity(S) == S.allocated_nodes_num

ptree_size(S) == S.nodes_num

NoRet == -1

(***************************************************************************)
(* Rotation, insertion, removal.  Each operator is a run of statements of  *)
(* the C function it is named after, applied to the tree S.                *)
(***************************************************************************)
set_link(S, n, dir, v) == [S EXCEPT !.mem[n].links[dir + 1] = v]
set_parent(S, n, v) == [S EXCEPT !.mem[n].parent = v]
set_red(S, n) == [S EXCEPT !.mem = paint_red(@, n)]
set_black(S, n) == [S EXCEPT !.mem = paint_black(@, n)]

\* rotate asserting the child on the side of the rotation, has_child(x, dir)
rotate_enter_same_side(S, x, dir) ==
  [S EXCEPT !.asserts = @ /\ has_child(S.mem, x, dir),
            !.rotations = @ + 1]

\* assert(has_child(x, !dir)), and one more call of rotate
rotate_enter(S, x, dir) ==
  [S EXCEPT !.asserts = @ /\ has_child(S.mem, x, 1 - dir),
            !.rotations = @ + 1]

\* rotate that leaves x->links[!dir] referring to y
rotate_child_skip(S, x, y, dir) == S

\* x->links[!dir] = y->links[dir]; if (y->links[dir] != leaf) ...->parent = x;
rotate_child(S, x, y, dir) ==
  IF S.mem[y].links[dir + 1] # leaf
    THEN set_parent(set_link(S, x, 1 - dir, S.mem[y].links[dir + 1]),
                    S.mem[y].links[dir + 1], x)
    ELSE set_link(S, x, 1 - dir, S.mem[y].links[dir + 1])

\* y->parent = x->parent; then the root or x's parent refers to y
rotate_up(S, x, y) ==
  IF S.mem[x].parent = leaf
    THEN [set_parent(S, y, S.mem[x].parent) EXCEPT !.root = y]
    ELSE set_link(set_parent(S, y, S.mem[x].parent), S.mem[x].parent,
                  IF x = S.mem[S.mem[x].parent].links[1] THEN 0 ELSE 1, y)

\* the end of rotate without x->parent = y
rotate_down_keep_parent(S, x, y, dir) == set_link(S, y, dir, x)

\* y->links[dir] = x; x->parent = y;
rotate_down(S, x, y, dir) == set_parent(set_link(S, y, dir, x), x, y)

rotate_with(S, x, y, dir) ==
  rotate_down(rotate_up(rotate_child(rotate_enter(S, x, dir), x, y, dir), x, y),
              x, y, dir)

rotate(S, x, dir) == rotate_with(S, x, S.mem[x].links[(1 - dir) + 1], dir)

RECURSIVE insert_find(_, _, _)
\* the descent loop of ptree_insert up to the place where it stops: at a
\* node x equal to ptr (found), or at the node x that lacks a child at dir
insert_find(m, x, ptr) ==
  IF cmp(ptr, m[x].ptr) = 0 THEN [found |-> TRUE, x |-> x, dir |-> 0]
  ELSE IF has_child(m, x, Bit(cmp(ptr, m[x].ptr) > 0))
    THEN insert_find(m, m[x].links[Bit(cmp(ptr, m[x].ptr) > 0) + 1], ptr)
    ELSE [found |-> FALSE, x |-> x, dir |-> Bit(cmp(ptr, m[x].ptr) > 0)]

\* x->links[dir] = add_node(tree, ptr); x->links[dir]->parent = x;
\* S is the tree add_node left
insert_attach(S, x, dir) ==
  IF S.aborted \/ S.ub THEN S
  ELSE set_parent(set_link(S, x, dir, added_node(S)), added_node(S), x)

\* the uncle is red: recolour parent p, uncle y and grandparent g
insert_recolor(S, p, y, g) == set_red(set_black(set_black(S, p), y), g)

\* the outer case of the insertion loop without paint_red(x->parent->parent)
insert_outer_keep_color(S, x, lefty) ==
  rotate(set_black(S, S.mem[x].parent), S.mem[S.mem[x].parent].parent, lefty)

\* the outer case of the insertion loop without paint_black(x->parent)
insert_outer_keep_parent(S, x, lefty) ==
  rotate(set_red(S, S.mem[S.mem[x].parent].parent),
         S.mem[S.mem[x].parent].parent, lefty)

\* paint_black(x->parent); paint_red(x->parent->parent);
\* rotate(tree, x->parent->parent, lefty);
insert_outer(S, x, lefty) ==
  rotate(set_red(set_black(S, S.mem[x].parent), S.mem[S.mem[x].parent].parent),
         S.mem[S.mem[x].parent].parent, lefty)

RECURSIVE insert_balance(_, _)
\* one turn of the rebalancing loop of ptree_insert, the uncle being y
insert_turn(S, x, lefty, y) ==
  IF is_red(S.mem, y)
    THEN insert_balance(
           insert_recolor(S, S.mem[x].parent, y, S.mem[S.mem[x].parent].parent),
           S.mem[S.mem[x].parent].parent)
    ELSE IF is_child(S.mem, x, lefty)
      THEN insert_balance(
             insert_outer(rotate(S, S.mem[x].parent, 1 - lefty),
                          S.mem[x].parent, lefty),
             S.mem[x].parent)
      ELSE insert_balance(insert_outer(S, x, lefty), x)

\* the rebalancing loop of ptree_insert
insert_balance(S, x) ==
  IF x # S.root /\ is_red(S.mem, S.mem[x].parent)
    THEN insert_turn(S, x, Bit(is_child(S.mem, S.mem[x].parent, 0)),
           S.mem[S.mem[S.mem[x].parent].parent].links[
             Bit(is_child(S.mem, S.mem[x].parent, 0)) + 1])
    ELSE S

\* what ptree_insert returns once the new node is linked in: S is the tree
\* after add_node and the linking
insert_return(S) ==
  IF S.aborted \/ S.ub THEN [S |-> S, ret |-> NoRet]
  ELSE [S |-> set_black(S, S.root), ret |-> 1]

insert_rebalance(S) ==
  IF S.aborted \/ S.ub THEN S ELSE insert_balance(S, added_node(S))

insert_root(S) ==
  IF S.aborted \/ S.ub THEN S ELSE [S EXCEPT !.root = added_node(S)]

\* ptree_insert taking a node from the arena before it compares
insert_at_eager(S, pos, ptr, maxauto) ==
  IF pos.found THEN [S |-> add_node_grow(S, maxauto), ret |-> 0]
  ELSE insert_return(insert_rebalance(
         insert_attach(add_node(S, ptr, maxauto), pos.x, pos.dir)))

insert_at(S, pos, ptr, maxauto) ==
  IF pos.found THEN [S |-> S, ret |-> 0]
  ELSE insert_return(insert_rebalance(
         insert_attach(add_node(S, ptr, maxauto), pos.x, pos.dir)))

\* returns the tree and the value returned; when the call aborts or runs
\* into undefined behaviour (S.aborted, S.ub) it returns nothing
ptree_insert(S, ptr, maxauto) ==
  IF S.root = leaf
    THEN insert_return(insert_root(add_node(S, ptr, maxauto)))
    ELSE insert_at(S, insert_find(S.mem, S.root, ptr), ptr, maxauto)

\* assert(w != leaf) on the sibling of x
assert_sibling(S, x, XL) ==
  [S EXCEPT !.asserts = @ /\ S.mem[S.mem[x].parent].links[XL + 1] # leaf]

\* if (is_red(w)) { paint_black(w); paint_red(x->parent);
\*                  rotate(tree, x->parent, !XL); w = ...; assert(w != leaf); }
remove_red_sibling(S, x, XL, w) ==
  IF is_red(S.mem, w)
    THEN assert_sibling(
           rotate(set_red(set_black(S, w), S.mem[x].parent),
                  S.mem[x].parent, 1 - XL),
           x, XL)
    ELSE S

\* if (is_black(w->links[XL])) { paint_black(w->links[!XL]); paint_red(w);
\*                               rotate(tree, w, XL); w = ...; assert(w != leaf); }
remove_near_red(S, x, XL, w) ==
  IF is_black(S.mem, S.mem[w].links[XL + 1])
    THEN assert_sibling(
           rotate(set_red(set_black(S, S.mem[w].links[(1 - XL) + 1]), w), w, XL),
           x, XL)
    ELSE S

\* copy_color(w, x->parent); paint_black(x->parent);
\* paint_black(w->links[XL]); rotate(tree, x->parent, !XL); break;
remove_far_red(S, x, XL, w) ==
  rotate(set_black(set_black([S EXCEPT !.mem = copy_color(@, w, S.mem[x].parent)],
                             S.mem[x].parent),
                   S.mem[w].links[XL + 1]),
         S.mem[x].parent, 1 - XL)

\* the sibling of x as the loop reads it: w = x->parent->links[XL]
sibling(S, x, XL) == S.mem[S.mem[x].parent].links[XL + 1]

remove_last_cases(S, x, XL) ==
  remove_far_red(S, x, XL, sibling(S, x, XL))

RECURSIVE remove_balance(_, _)
\* the loop body of ptree_remove_node after its first if
remove_turn(S, x, XL, w) ==
  IF is_black(S.mem, S.mem[w].links[1]) /\ is_black(S.mem, S.mem[w].links[2])
    THEN remove_balance(set_red(S, w), S.mem[x].parent)
    ELSE set_black(remove_last_cases(remove_near_red(S, x, XL, w), x, XL), x)

remove_turn_from(S, x, XL) == remove_turn(S, x, XL, sibling(S, x, XL))

\* the rebalancing loop of ptree_remove_node, with the paint_black(x) that
\* follows it
remove_balance(S, x) ==
  IF x # S.root /\ is_black(S.mem, x)
    THEN remove_turn_from(
           remove_red_sibling(assert_sibling(S, x, Bit(is_child(S.mem, x, 0))),
                              x, Bit(is_child(S.mem, x, 0)),
                              sibling(S, x, Bit(is_child(S.mem, x, 0)))),
           x, Bit(is_child(S.mem, x, 0)))
    ELSE set_black(S, x)

\* x->parent = y->parent; then the root or y's parent refers to x
remove_unlink(S, y, x) ==
  IF S.mem[y].parent = leaf
    THEN [set_parent(S, x, S.mem[y].parent) EXCEPT !.root = x]
    ELSE set_link(set_parent(S, x, S.mem[y].parent), S.mem[y].parent,
                  Bit(is_child(set_parent(S, x, S.mem[y].parent).mem, y, 1)), x)

\* ptree_remove_node without the copy of the successor's element
remove_copy_none(S, z, y) == S

\* if (y != z) z->ptr = y->ptr;
remove_copy(S, z, y) ==
  IF y # z THEN [S EXCEPT !.mem[z].ptr = S.mem[y].ptr] ELSE S

\* ptree_remove_node ending with paint_red(x) when y is red
remove_rebalance_red(S, y, x) ==
  IF is_black(S.mem, y) THEN remove_balance(S, x) ELSE set_red(S, x)

\* if (is_black(y)) { the loop }  paint_black(x);
remove_rebalance(S, y, x) ==
  IF is_black(S.mem, y) THEN remove_balance(S, x) ELSE set_black(S, x)

\* ptree_remove_node releasing the slot of z where the code releases y's
remove_node_release_z(S, z, y, x) ==
  [S |-> release_node(
           remove_rebalance(remove_copy(remove_unlink(S, y, x), z, y), y, x), z),
   ret |-> 1, released |-> z]

remove_node_at(S, z, y, x) ==
  [S |-> release_node(
           remove_rebalance(remove_copy(remove_unlink(S, y, x), z, y), y, x), y),
   ret |-> 1, released |-> y]

\* ptree_remove_node detaching the in-order predecessor of a node z that
\* has two children, where the code detaches the successor
remove_target_prev(m, z) ==
  IF ~has_child(m, z, 0) \/ ~has_child(m, z, 1) THEN z ELSE get_prev_node(m, z)

\* ptree_remove_node detaching z itself whatever children it has
remove_target_self(m, z) == z

\* the node physically detached: z, or its successor when z has two children
remove_target(m, z) ==
  IF ~has_child(m, z, 0) \/ ~has_child(m, z, 1) THEN z ELSE get_next_node(m, z)

remove_node_of(S, z, y) ==
  remove_node_at(S, z, y, S.mem[y].links[Bit(~has_child(S.mem, y, 0)) + 1])

\* returns the tree, the value returned and the node released
ptree_remove_node(S, z) == remove_node_of(S, z, remove_target(S.mem, z))

ptree_remove(S, ptr) ==
  IF S.root = leaf THEN [S |-> S, ret |-> 0, released |-> NULL]
  ELSE LET z == ptree_search(S, ptr)
       IN IF z = NULL THEN [S |-> S, ret |-> 0, released |-> NULL]
          ELSE ptree_remove_node(S, z)

ptree_remove_by_it(S, it) == ptree_remove_node(S, it)

ptree_remove_by_key(S, key) ==
  LET it == ptree_get_it(S, key)
  IN IF it # NULL
       THEN [ptree_remove_node(S, it) EXCEPT !.ret = 1]
       ELSE [S |-> S, ret |-> 0, released |-> NULL]

\* ptree_empty without tree->root = leaf
ptree_empty_keep_root(S) == [S EXCEPT !.nodes_num = 0]

\* ptree_empty without tree->nodes_num = 0
ptree_empty_keep_count(S) == [S EXCEPT !.root = leaf]

ptree_empty(S) == [S EXCEPT !.root = leaf, !.nodes_num = 0]

(***************************************************************************)
(* The state machine: one tree driven through its API.  refset is a        *)
(* reference ordered set that receives the same calls; ins_ok and rem_ok   *)
(* count the insertions and removals that took effect since creation or    *)
(* the last ptree_empty; calls counts the API calls made; reserved is the   *)
(* number k of the last ptree_allocate_nodes(k) less the insertions that    *)
(* took effect since, 0 once any other call was made; twin is a second     *)
(* tree, newly created, for the replays of SpecTwin.                       *)
(***************************************************************************)
\* ptree_new: the tree struct zeroed, root = leaf, then the preallocation
\* heap is the storage already handed out, the static _leaf included
ptree_new_at(heap, preallocated_nodes) ==
  ptree_allocate_nodes(
    [root |-> leaf, nodes_num |-> 0, allocated_nodes_num |-> 0,
     nodes |-> <<>>, mem |-> heap, freed |-> {},
     asserts |-> TRUE, aborted |-> FALSE, ub |-> FALSE, rotations |-> 0],
    size_t(preallocated_nodes))

\* the first tree of the process
ptree_new(preallocated_nodes) ==
  ptree_new_at([n \in {leaf} |-> _leaf], preallocated_nodes)

Init ==
  \E pre \in 0..MaxAlloc :
    LET S == ptree_new(pre) IN
      /\ root = S.root
      /\ nodes_num = S.nodes_num
      /\ allocated_nodes_num = S.allocated_nodes_num
      /\ nodes = S.nodes
      /\ mem = S.mem
      /\ freed = S.freed
      /\ max_nodes_to_auto_allocate = 0
      /\ status = "running"
      /\ refset = {}
      /\ ins_ok = 0
      /\ rem_ok = 0
      /\ calls = 0
      /\ reserved = 0
      /\ twin = ptree_new(0)

\* 1 when the call reported that it took effect
Took(r) == IF r.ret = 1 THEN 1 ELSE 0

\* one more API call on a live process, while the bound allows it; the
\* replayed tree twin is not driven by these calls
Called(weight) ==
  /\ status = "running"
  /\ calls + weight <= MaxCalls
  /\ calls' = calls + weight
  /\ twin' = twin

\* a call that stores or removes an element
ElementCall == Called(1)

\* a call that manages storage
ArenaCall == Called(ArenaCallWeight)

\* the call returned and the tree variables take the values of S, or the
\* process is gone: aborted by oom(), or past an undefined access
Store(S) ==
  IF S.aborted \/ S.ub
    THEN /\ status' = IF S.aborted THEN "aborted" ELSE "undefined"
         /\ UNCHANGED <<root, nodes_num, allocated_nodes_num, nodes, mem, freed>>
    ELSE /\ status' = "running"
         /\ root' = S.root
         /\ nodes_num' = S.nodes_num
         /\ allocated_nodes_num' = S.allocated_nodes_num
         /\ nodes' = S.nodes
         /\ mem' = S.mem
         /\ freed' = S.freed

Active == {nodes[i] : i \in 1..nodes_num}

\* what a call ptree_insert(tree, h) with outcome r does to the tree and to
\* the bookkeeping of the calls made
DoInsert(h, r) ==
  /\ Store(r.S)
  /\ refset' = IF \E e \in refset : cmp(h, e) = 0 THEN refset
               ELSE refset \cup {h}
  /\ ins_ok' = ins_ok + Took(r)
  /\ reserved' = IF reserved > 0 THEN reserved - Took(r) ELSE 0
  /\ UNCHANGED <<max_nodes_to_auto_allocate, rem_ok>>

\* the same for ptree_remove(tree, h)
DoRemove(h, r) ==
  /\ Store(r.S)
  /\ refset' = {e \in refset : cmp(h, e) # 0}
  /\ rem_ok' = rem_ok + Took(r)
  /\ reserved' = 0
  /\ UNCHANGED <<max_nodes_to_auto_allocate, ins_ok>>

\* the same for ptree_remove_by_key(tree, k)
DoRemoveByKey(k, r) ==
  /\ Store(r.S)
  /\ refset' = {e \in refset : cmp_key(k, e) # 0}
  /\ rem_ok' = rem_ok + Took(r)
  /\ reserved' = 0
  /\ UNCHANGED <<max_nodes_to_auto_allocate, ins_ok>>

\* the same for ptree_remove_by_it(tree, it)
DoRemoveByIt(it, r) ==
  /\ Store(r.S)
  /\ refset' = refset \ {mem[it].ptr}
  /\ rem_ok' = rem_ok + 1
  /\ reserved' = 0
  /\ UNCHANGED <<max_nodes_to_auto_allocate, ins_ok>>

\* the same for ptree_empty(tree)
DoEmpty ==
  /\ Store(ptree_empty(State))
  /\ refset' = {}
  /\ ins_ok' = 0
  /\ rem_ok' = 0
  /\ reserved' = 0
  /\ UNCHANGED max_nodes_to_auto_allocate

\* the same for ptree_allocate_nodes(tree, n), n a size_t, with outcome S;
\* reserved follows the requests below 2^31
DoAllocateNodes(n, S) ==
  /\ Store(S)
  /\ reserved' = IF n.high = 0 THEN n.low ELSE 0
  /\ UNCHANGED <<max_nodes_to_auto_allocate, refset, ins_ok, rem_ok>>

Insert(h) ==
  LET r == ptree_insert(State, h, max_nodes_to_auto_allocate) IN
    /\ ElementCall
    /\ r.S.allocated_nodes_num <= MaxCap
    /\ DoInsert(h, r)

Remove(h) == ElementCall /\ DoRemove(h, ptree_remove(State, h))

RemoveByKey(k) == ElementCall /\ DoRemoveByKey(k, ptree_remove_by_key(State, k))

RemoveByIt(it) == ElementCall /\ DoRemoveByIt(it, ptree_remove_by_it(State, it))

Empty == ArenaCall /\ DoEmpty

AllocateNodes(n) ==
  LET S == ptree_allocate_nodes(State, n) IN
    /\ ArenaCall
    /\ S.allocated_nodes_num <= MaxCap
    /\ DoAllocateNodes(n, S)

SetMaxNodesToAutoAllocate(num) ==
  /\ ArenaCall
  /\ max_nodes_to_auto_allocate' = num
  /\ reserved' = 0
  /\ UNCHANGED <<root, nodes_num, allocated_nodes_num, nodes, mem, freed,
                 status, refset, ins_ok, rem_ok>>

Shrink ==
  \E realloc_null \in BOOLEAN :
    /\ ArenaCall
    /\ Store(ptree_shrink(State, realloc_null))
    /\ reserved' = 0
    /\ UNCHANGED <<max_nodes_to_auto_allocate, refset, ins_ok, rem_ok>>

Next ==
  \/ \E h \in Handles : Insert(h)
  \/ \E h \in Handles : Remove(h)
  \/ \E k \in Keys : RemoveByKey(k)
  \/ \E it \in Active : RemoveByIt(it)
  \/ Empty
  \/ \E k \in 1..MaxAlloc : AllocateNodes(size_t(k))
  \/ \E num \in 0..MaxAuto : SetMaxNodesToAutoAllocate(num)

Spec == Init /\ [][Next]_vars

\* the same tree, its owner also calling ptree_shrink
NextShrink ==
  \/ Next
  \/ Shrink

SpecShrink == Init /\ [][NextShrink]_vars

\* requests of 2^31, 2^32 - 1, 2^32 and 2^32 + 1 nodes
WideRequests ==
  {[high |-> 1, low |-> 0], [high |-> 1, low |-> max_nodes],
   [high |-> 2, low |-> 0], [high |-> 2, low |-> 1]}

Requests == {size_t(k) : k \in 1..MaxAlloc} \cup WideRequests

\* a tree that is filled while its owner asks for storage, in small and in
\* very large amounts
NextWide ==
  \/ \E h \in Handles : Insert(h)
  \/ \E n \in Requests : AllocateNodes(n)

SpecWide == Init /\ [][NextWide]_vars

\* The scenario: keys 5, 3, 8, 1, 4, 7, 9 are inserted in that order into a
\* new tree, 5 is removed, then the six others in any order.  calls is the
\* number of calls made; the element with key k is the handle MaxKey + k.
ScenarioKeys == <<5, 3, 8, 1, 4, 7, 9>>

ScenarioHandle(k) == MaxKey + k

ScenarioCall ==
  /\ status = "running"
  /\ calls' = calls + 1
  /\ twin' = twin

ScenarioInsert ==
  /\ calls < Len(ScenarioKeys)
  /\ ScenarioCall
  /\ DoInsert(ScenarioHandle(ScenarioKeys[calls + 1]),
              ptree_insert(State, ScenarioHandle(ScenarioKeys[calls + 1]),
                           max_nodes_to_auto_allocate))

ScenarioRemoveFirst ==
  /\ calls = Len(ScenarioKeys)
  /\ ScenarioCall
  /\ DoRemove(ScenarioHandle(ScenarioKeys[1]),
              ptree_remove(State, ScenarioHandle(ScenarioKeys[1])))

ScenarioRemoveRest ==
  /\ calls > Len(ScenarioKeys)
  /\ ScenarioCall
  /\ \E h \in refset : DoRemove(h, ptree_remove(State, h))

NextScenario ==
  \/ ScenarioInsert
  \/ ScenarioRemoveFirst
  \/ ScenarioRemoveRest

SpecScenario == Init /\ [][NextScenario]_vars

\* The replay: twin is a tree newly created at the creation of the first one
\* and again at each ptree_empty of the first one, and it receives every
\* insertion and removal the first one receives.
TwinHandles == 1..MaxTwinKey

TwinCall ==
  /\ status = "running"
  /\ calls < MaxTwinCalls
  /\ calls' = calls + 1

TwinInsert(h) ==
  /\ TwinCall
  /\ DoInsert(h, ptree_insert(State, h, max_nodes_to_auto_allocate))
  /\ twin' = ptree_insert(twin, h, max_nodes_to_auto_allocate).S

TwinRemove(h) ==
  /\ TwinCall
  /\ DoRemove(h, ptree_remove(State, h))
  /\ twin' = ptree_remove(twin, h).S

TwinRemoveByKey(k) ==
  /\ TwinCall
  /\ DoRemoveByKey(k, ptree_remove_by_key(State, k))
  /\ twin' = ptree_remove_by_key(twin, k).S

TwinEmpty ==
  /\ TwinCall
  /\ DoEmpty
  /\ twin' = ptree_new(0)

NextTwin ==
  \/ \E h \in TwinHandles : TwinInsert(h)
  \/ \E h \in TwinHandles : TwinRemove(h)
  \/ \E k \in TwinHandles : TwinRemoveByKey(k)
  \/ TwinEmpty

SpecTwin == Init /\ [][NextTwin]_vars

\* Two trees of one process.  The variables hold the struct of the first
\* tree and the heap, which holds the nodes of both trees and the one static
\* _leaf; twin.B is the struct of the second tree.  twin.soloA and
\* twin.soloB are the same two trees in two other processes, each alone in
\* its heap and receiving the calls made on its counterpart.  twin.ret and
\* twin.solo_ret are the values the last call returned here and there;
\* twin.crossed tells that a removal on the first tree ran its rebalancing
\* loop from the sentinel when the sentinel's parent field had last been
\* written by the second tree.
PairKeys == 1..MaxPairKey
PairKeysB == 1..MaxPairKeyB

\* the fields of struct ptree
Struct(S) ==
  [root |-> S.root, nodes_num |-> S.nodes_num,
   allocated_nodes_num |-> S.allocated_nodes_num, nodes |-> S.nodes]

\* the tree of struct t in the heap of the process
PairTree(t) ==
  [root |-> t.root, nodes_num |-> t.nodes_num,
   allocated_nodes_num |-> t.allocated_nodes_num, nodes |-> t.nodes,
   mem |-> mem, freed |-> freed,
   asserts |-> TRUE, aborted |-> FALSE, ub |-> FALSE, rotations |-> 0]

\* a tree between two calls
Settled(S) == [S EXCEPT !.rotations = 0]

InitPair ==
  \E cap \in 0..MaxAuto :
    /\ root = ptree_new(0).root
    /\ nodes_num = ptree_new(0).nodes_num
    /\ allocated_nodes_num = ptree_new(0).allocated_nodes_num
    /\ nodes = ptree_new(0).nodes
    /\ mem = ptree_new_at(ptree_new(0).mem, PairPrealloc).mem
    /\ freed = {}
    /\ max_nodes_to_auto_allocate = cap
    /\ status = "running"
    /\ refset = {}
    /\ ins_ok = 0
    /\ rem_ok = 0
    /\ calls = 0
    /\ reserved = 0
    /\ twin = [B |-> Struct(ptree_new_at(ptree_new(0).mem, PairPrealloc)),
               soloA |-> ptree_new(0),
               soloB |-> ptree_new(PairPrealloc),
               callsB |-> 0, ret |-> NoRet, solo_ret |-> NoRet,
               crossed |-> FALSE]

\* the removal of the element of z runs its loop from the sentinel: the
\* node detached is black, is not the root and has no child
LoopFromSentinel(S, z) ==
  /\ z # NULL
  /\ is_black(S.mem, remove_target(S.mem, z))
  /\ remove_target(S.mem, z) # S.root
  /\ ~has_child(S.mem, remove_target(S.mem, z), 0)
  /\ ~has_child(S.mem, remove_target(S.mem, z), 1)

\* a call on the first tree, with outcome r here and r1 in the process
\* where the tree is alone
PairCallA(r, r1, crossing) ==
  /\ calls' = calls + 1
  /\ Store(r.S)
  /\ twin' = [twin EXCEPT !.soloA = Settled(r1.S), !.ret = r.ret,
                          !.solo_ret = r1.ret, !.crossed = @ \/ crossing]
  /\ UNCHANGED <<max_nodes_to_auto_allocate, refset, ins_ok, rem_ok, reserved>>

\* a call on the second tree
PairCallB(r, r1) ==
  /\ status' = IF r.S.aborted THEN "aborted"
               ELSE IF r.S.ub THEN "undefined" ELSE "running"
  /\ mem' = r.S.mem
  /\ freed' = r.S.freed
  /\ twin' = [twin EXCEPT !.B = Struct(r.S), !.soloB = Settled(r1.S),
                          !.callsB = @ + 1, !.ret = r.ret, !.solo_ret = r1.ret]
  /\ UNCHANGED <<root, nodes_num, allocated_nodes_num, nodes, calls,
                 max_nodes_to_auto_allocate, refset, ins_ok, rem_ok, reserved>>

\* the process is live and the bound allows one more call on the first
\* tree, on the second tree
PairMayCallA == status = "running" /\ calls < MaxPairCalls
PairMayCallB == status = "running" /\ twin.callsB < MaxPairCallsB

PairInsertA(h) ==
  /\ PairMayCallA
  /\ PairCallA(ptree_insert(State, h, max_nodes_to_auto_allocate),
               ptree_insert(twin.soloA, h, max_nodes_to_auto_allocate), FALSE)

PairRemoveA(h) ==
  /\ PairMayCallA
  /\ PairCallA(ptree_remove(State, h), ptree_remove(twin.soloA, h),
               /\ root # leaf
               /\ mem[leaf].parent \in {twin.B.nodes[p] : p \in DOMAIN twin.B.nodes}
               /\ LoopFromSentinel(State, ptree_search(State, h)))

PairInsertB(h) ==
  /\ PairMayCallB
  /\ PairCallB(ptree_insert(PairTree(twin.B), h, max_nodes_to_auto_allocate),
               ptree_insert(twin.soloB, h, max_nodes_to_auto_allocate))

PairRemoveB(h) ==
  /\ PairMayCallB
  /\ PairCallB(ptree_remove(PairTree(twin.B), h), ptree_remove(twin.soloB, h))

NextPair ==
  \/ \E h \in PairKeys : PairInsertA(h)
  \/ \E h \in PairKeys : PairRemoveA(h)
  \/ \E h \in PairKeysB : PairInsertB(h)
  \/ \E h \in PairKeysB : PairRemoveB(h)

SpecPair == InitPair /\ [][NextPair]_vars

(***************************************************************************)
(* Reading a tree: these operators follow the child links from the root    *)
(* with a fuel that bounds the walk, so that a malformed tree is reported  *)
(* rather than followed for ever.                                          *)
(***************************************************************************)
Fuel(S) == Cardinality(DOMAIN S.mem)

RECURSIVE Subtree(_, _, _)
\* the nodes reachable from n through child links
Subtree(m, n, fuel) ==
  IF n = leaf \/ n \notin DOMAIN m \/ fuel = 0 THEN {}
  ELSE {n} \cup Subtree(m, m[n].links[1], fuel - 1)
           \cup Subtree(m, m[n].links[2], fuel - 1)

TreeNodes(S) == Subtree(S.mem, S.root, Fuel(S))

\* the handles stored in the tree
Contents(S) == {S.mem[n].ptr : n \in TreeNodes(S)}

RECURSIVE BlackHeight(_, _, _)
\* the number of black nodes on every path from n down to the sentinel,
\* or -1 when two such paths disagree
BlackHeight(m, n, fuel) ==
  IF n = leaf THEN 0
  ELSE IF n \notin DOMAIN m \/ fuel = 0 THEN -1
  ELSE LET l == BlackHeight(m, m[n].links[1], fuel - 1)
           r == BlackHeight(m, m[n].links[2], fuel - 1)
       IN IF l = -1 \/ r = -1 \/ l # r THEN -1
          ELSE l + (IF is_black(m, n) THEN 1 ELSE 0)

RootIsBlack(S) == is_black(S.mem, S.root)

NoRedRed(S) ==
  \A n \in TreeNodes(S) :
    is_red(S.mem, n) =>
      /\ is_black(S.mem, S.mem[n].links[1])
      /\ is_black(S.mem, S.mem[n].links[2])

RedBlack(S) ==
  /\ RootIsBlack(S)
  /\ NoRedRed(S)
  /\ BlackHeight(S.mem, S.root, Fuel(S)) # -1

RECURSIVE Walk(_, _, _)
\* the handles met from node it on with repeated ptree_it_next; a walk that
\* outlasts its fuel ends with NULLPTR
Walk(m, it, fuel) ==
  IF it = NULL THEN <<>>
  ELSE IF fuel = 0 THEN <<NULLPTR>>
  ELSE <<m[it].ptr>> \o Walk(m, ptree_it_next(m, it), fuel - 1)

InOrder(S) == Walk(S.mem, ptree_min(S), Fuel(S))

RECURSIVE SortedSeq(_)
\* the elements of a set of handles with pairwise different keys, ascending
SortedSeq(set) ==
  IF set = {} THEN <<>>
  ELSE LET least == CHOOSE e \in set : \A f \in set : cmp(e, f) <= 0
       IN <<least>> \o SortedSeq(set \ {least})

\* C1: after every insertion and removal the tree is a red-black tree: the
\* root is black, no red node has a red child, and every path from the root
\* to the sentinel holds the same number of black nodes.
C1_RedBlackInvariants == RedBlack(State)

\* a removal has rebalanced a tree of five nodes or more that holds a red
\* node with two black children, a shape only removals produce
C1_Witness ==
  /\ rem_ok >= 1
  /\ nodes_num >= 5
  /\ \E n \in TreeNodes(State) :
       /\ is_red(mem, n)
       /\ has_child(mem, n, 0)
       /\ has_child(mem, n, 1)

\* C2: walking from ptree_min with ptree_it_next yields exactly the handles
\* of the reference ordered set that received the same calls, in strictly
\* ascending comparator order.
C2_InOrderMatchesReference ==
  /\ InOrder(State) = SortedSeq(refset)
  /\ \A i \in 1..(Len(InOrder(State)) - 1) :
       cmp(InOrder(State)[i], InOrder(State)[i + 1]) < 0

\* after insertions, a rejected duplicate and a removal, the walk yields
\* four handles or more, one of them the first-inserted of two equal ones
C2_Witness ==
  /\ rem_ok >= 1
  /\ Len(InOrder(State)) >= 4
  /\ \E h \in refset : h > MaxKey

\* C3: ptree_size equals the insertions that returned 1 minus the removals
\* that removed an element, counted since creation or the last ptree_empty.
C3_SizeIsInsertsMinusRemoves == ptree_size(State) = ins_ok - rem_ok

C3_Witness ==
  /\ ins_ok >= 4
  /\ rem_ok >= 2
  /\ ptree_size(State) = 2

\* the stored elements that compare equal to handle ptr, and to key
EqualTo(S, ptr) == {e \in Contents(S) : cmp(ptr, e) = 0}
EqualToKey(S, key) == {e \in Contents(S) : cmp_key(key, e) = 0}

\* C4: ptree_insert of an element that compares equal to a stored one returns
\* 0 and changes nothing (shape, colours, handles, count, slot table and
\* capacity), full arena or not; any other insertion returns 1 and the
\* element is stored afterwards.
C4_DuplicateInsertRejected ==
  \A h \in Handles :
    LET r == ptree_insert(State, h, max_nodes_to_auto_allocate)
    IN IF EqualTo(State, h) # {}
         THEN r.ret = 0 /\ r.S = State
         ELSE r.ret = 1 /\ h \in Contents(r.S)

\* the arena is full and holds an element equal to a handle that is not
\* stored, whose insertion is rejected
C4_Witness ==
  /\ nodes_num = allocated_nodes_num
  /\ nodes_num >= 2
  /\ \E h \in Handles \ Contents(State) :
       /\ EqualTo(State, h) # {}
       /\ ptree_insert(State, h, max_nodes_to_auto_allocate).ret = 0

\* C5: ptree_remove and ptree_remove_by_key return 0 and leave the whole
\* state unchanged when no stored element compares equal to the argument
\* (the empty tree included); otherwise they return 1 and no stored element
\* compares equal to the argument afterwards.
C5_RemoveReportsPresence ==
  /\ \A h \in Handles :
       LET r == ptree_remove(State, h)
       IN IF EqualTo(State, h) = {}
            THEN r.ret = 0 /\ r.S = State
            ELSE r.ret = 1 /\ EqualTo(r.S, h) = {}
  /\ \A k \in Keys :
       LET r == ptree_remove_by_key(State, k)
       IN IF EqualToKey(State, k) = {}
            THEN r.ret = 0 /\ r.S = State
            ELSE r.ret = 1 /\ EqualToKey(r.S, k) = {}

\* a tree of three elements or more where one removal by identity finds
\* nothing and one removal by key removes a node that has two children
C5_Witness ==
  /\ nodes_num >= 3
  /\ \E h \in Handles : ptree_remove(State, h).ret = 0
  /\ \E k \in Keys :
       /\ ptree_remove_by_key(State, k).ret = 1
       /\ has_child(mem, ptree_get_it(State, k), 0)
       /\ has_child(mem, ptree_get_it(State, k), 1)

\* C6: for every stored element e, ptree_get of e's key returns e and
\* ptree_get_it of e's key returns a node whose handle is e; for a key that
\* matches no stored element both return NULL.
C6_GetByKey ==
  /\ \A e \in refset :
       /\ ptree_get(State, KeyOf(e)) = e
       /\ ptree_get_it(State, KeyOf(e)) # NULL
       /\ mem[ptree_get_it(State, KeyOf(e))].ptr = e
  /\ \A k \in Keys :
       (\A e \in refset : KeyOf(e) # k)
         => ptree_get(State, k) = NULLPTR /\ ptree_get_it(State, k) = NULL

\* after a removal the tree holds four elements or more, one of them found
\* by its key below the root, and some key matches nothing
C6_Witness ==
  /\ rem_ok >= 1
  /\ nodes_num >= 4
  /\ \E e \in refset : ptree_get_it(State, KeyOf(e)) # root
  /\ \E k \in Keys : ptree_get(State, k) = NULLPTR

\* C7: a call of ptree_shrink that returns leaves the capacity, the
\* allocated_nodes_num that add_node consults, equal to the active count.
C7_ShrinkCapacityIsCount ==
  [][(Shrink /\ status' = "running") => allocated_nodes_num' = nodes_num']_vars

\* the set of nodes the slot table holds
Slots(S) == {S.nodes[p] : p \in DOMAIN S.nodes}

\* trees S and T own the same storage: capacity, slot table length, the set
\* of nodes in the slots, the nodes allocated and the nodes freed
SameStorage(S, T) ==
  /\ T.allocated_nodes_num = S.allocated_nodes_num
  /\ Len(T.nodes) = Len(S.nodes)
  /\ Slots(T) = Slots(S)
  /\ DOMAIN T.mem = DOMAIN S.mem
  /\ T.freed = S.freed

\* C8: a removal (by identity, by key or by iterator) and ptree_empty
\* release no node storage: capacity and the set of allocated slots are the
\* same before and after, and the active count is what changes.
C8_RemovalKeepsStorage ==
  /\ \A h \in Handles :
       LET r == ptree_remove(State, h)
       IN /\ SameStorage(State, r.S)
          /\ r.S.nodes_num = nodes_num - r.ret
  /\ \A k \in Keys :
       LET r == ptree_remove_by_key(State, k)
       IN /\ SameStorage(State, r.S)
          /\ r.S.nodes_num = nodes_num - r.ret
  /\ \A it \in Active :
       LET r == ptree_remove_by_it(State, it)
       IN /\ SameStorage(State, r.S)
          /\ r.S.nodes_num = nodes_num - 1
  /\ SameStorage(State, ptree_empty(State))
  /\ ptree_empty(State).nodes_num = 0

\* removals have left free slots in an arena of four slots or more that
\* still holds elements
C8_Witness ==
  /\ rem_ok >= 2
  /\ nodes_num >= 2
  /\ allocated_nodes_num >= 4
  /\ nodes_num < allocated_nodes_num

\* C9: an insertion that takes effect changes the capacity only when the
\* active count equals the capacity; with a free slot it leaves capacity and
\* slot table alone and stores the element in the first free slot's node;
\* and the k insertions that follow ptree_allocate_nodes(k) change no
\* capacity.
C9_InsertGrowsOnlyWhenFull ==
  [][ins_ok' = ins_ok + 1 =>
       /\ allocated_nodes_num' # allocated_nodes_num
            => nodes_num = allocated_nodes_num
       /\ nodes_num < allocated_nodes_num
            => /\ allocated_nodes_num' = allocated_nodes_num
               /\ nodes' = nodes
               /\ DOMAIN mem' = DOMAIN mem
               /\ mem'[nodes[nodes_num + 1]].ptr \in refset' \ refset
       /\ reserved > 0 => allocated_nodes_num' = allocated_nodes_num]_vars

\* ptree_allocate_nodes(2) on a tree that held an element, one insertion
\* into the reserve done and a slot left for the second
C9_Witness ==
  /\ reserved = 1
  /\ ins_ok >= 2
  /\ nodes_num < allocated_nodes_num

\* the slots one growth of add_node adds to a full arena of capacity c under
\* cap m: c doubled (1 from empty), cut to m when m is set and smaller
GrowthOf(c, m) ==
  LET doubling == IF c = 0 THEN 1 ELSE c
  IN IF m # 0 /\ doubling > m THEN m ELSE doubling

\* C10: an insertion into a full arena of capacity c adds 1 slot if c = 0
\* and c slots otherwise, cut down to the cap m of
\* ptree_set_max_nodes_to_auto_allocate when m is not 0, so that it never
\* adds more than a non-zero m; m = 0 leaves the doubling unbounded.
C10_GrowthAmount ==
  \A h \in Handles :
    LET r == ptree_insert(State, h, max_nodes_to_auto_allocate)
        added == r.S.allocated_nodes_num - allocated_nodes_num
    IN (nodes_num = allocated_nodes_num /\ r.ret = 1)
         => /\ added = GrowthOf(allocated_nodes_num, max_nodes_to_auto_allocate)
            /\ max_nodes_to_auto_allocate # 0
                 => added <= max_nodes_to_auto_allocate
            /\ max_nodes_to_auto_allocate = 0
                 => added = (IF allocated_nodes_num = 0 THEN 1
                             ELSE allocated_nodes_num)

\* a full arena of two slots or more under a cap smaller than its capacity
C10_Witness ==
  /\ nodes_num = allocated_nodes_num
  /\ max_nodes_to_auto_allocate # 0
  /\ allocated_nodes_num > max_nodes_to_auto_allocate
  /\ \E h \in Handles :
       ptree_insert(State, h, max_nodes_to_auto_allocate).ret = 1

\* capacity c plus the size_t request n is more than max_nodes
Exceeds(c, n) == n.high > 0 \/ n.low > max_nodes - c

\* C11: a call of ptree_allocate_nodes whose request added to the capacity
\* exceeds max_nodes aborts the process, and a call that returns has grown
\* the arena by the whole request, every slot below the capacity holding a
\* node.
C11_AllocateBeyondMaxAborts ==
  [][\A n \in Requests :
       AllocateNodes(n) =>
         /\ Exceeds(allocated_nodes_num, n) => status' = "aborted"
         /\ status' = "running" =>
              /\ allocated_nodes_num' = allocated_nodes_num + n.low
              /\ Len(nodes') = allocated_nodes_num'
              /\ \A p \in 1..allocated_nodes_num' :
                   nodes'[p] \in DOMAIN mem' \ freed']_vars

\* C12: on an empty tree ptree_min, ptree_max, ptree_has, ptree_get and
\* ptree_get_it return NULL, and ptree_remove and ptree_remove_by_key return
\* 0 without aborting and leave the state as it was.
C12_EmptyTreeAnswers ==
  nodes_num = 0 =>
    /\ ptree_min(State) = NULL
    /\ ptree_max(State) = NULL
    /\ \A h \in Handles : ptree_has(State, h) = NULL
    /\ \A k \in Keys :
         /\ ptree_get(State, k) = NULLPTR
         /\ ptree_get_it(State, k) = NULL
    /\ \A h \in Handles :
         /\ ptree_remove(State, h).ret = 0
         /\ ptree_remove(State, h).S = State
    /\ \A k \in Keys :
         /\ ptree_remove_by_key(State, k).ret = 0
         /\ ptree_remove_by_key(State, k).S = State

\* a tree emptied by removals, its slots still allocated
C12_Witness ==
  /\ nodes_num = 0
  /\ rem_ok >= 2
  /\ allocated_nodes_num >= 2

\* C13: on a non-empty tree ptree_min returns the node whose element
\* compares less than every other stored element, and ptree_max the node
\* whose element compares greater than every other stored element.
C13_MinMaxAreExtremes ==
  nodes_num > 0 =>
    /\ ptree_min(State) \in Active
    /\ ptree_max(State) \in Active
    /\ mem[ptree_min(State)].ptr \in refset
    /\ mem[ptree_max(State)].ptr \in refset
    /\ \A e \in refset \ {mem[ptree_min(State)].ptr} :
         cmp(mem[ptree_min(State)].ptr, e) < 0
    /\ \A e \in refset \ {mem[ptree_max(State)].ptr} :
         cmp(mem[ptree_max(State)].ptr, e) > 0

\* after a removal, a tree of five elements or more whose least element
\* lies two links below the root and whose greatest is not the root
C13_Witness ==
  /\ rem_ok >= 1
  /\ nodes_num >= 5
  /\ mem[mem[ptree_min(State)].parent].parent = root
  /\ ptree_max(State) # root

\* C14: ptree_it_next and ptree_it_prev are inverse to each other on the
\* active nodes: the predecessor of a node's successor and the successor of
\* its predecessor are the node itself; the ptree_max node has no successor
\* and the ptree_min node no predecessor.
C14_NextPrevInverse ==
  /\ \A n \in Active :
       /\ ptree_it_next(mem, n) # NULL =>
            /\ ptree_it_next(mem, n) \in Active
            /\ ptree_it_prev(mem, ptree_it_next(mem, n)) = n
       /\ ptree_it_prev(mem, n) # NULL =>
            /\ ptree_it_prev(mem, n) \in Active
            /\ ptree_it_next(mem, ptree_it_prev(mem, n)) = n
  /\ nodes_num > 0 =>
       /\ ptree_it_next(mem, ptree_max(State)) = NULL
       /\ ptree_it_prev(mem, ptree_min(State)) = NULL

\* after a removal, a node without a left child whose predecessor is found
\* two links up or more, and a node without a right child whose successor is
\* found two links up or more
C14_Witness ==
  /\ rem_ok >= 1
  /\ \E n \in Active :
       /\ ~has_child(mem, n, 0)
       /\ ptree_it_prev(mem, n) \notin {NULL, mem[n].parent}
  /\ \E n \in Active :
       /\ ~has_child(mem, n, 1)
       /\ ptree_it_next(mem, n) \notin {NULL, mem[n].parent}

\* C15: once as many removals as insertions have taken effect the size is 0
\* and the root is absent, and an insertion then returns 1 and gives a tree
\* of exactly one node, the black root without children.
C15_RefillAfterRemovingAll ==
  (ins_ok >= 1 /\ rem_ok = ins_ok) =>
    /\ ptree_size(State) = 0
    /\ root = leaf
    /\ \A h \in Handles :
         LET r == ptree_insert(State, h, max_nodes_to_auto_allocate)
         IN /\ r.ret = 1
            /\ ptree_size(r.S) = 1
            /\ r.S.root # leaf
            /\ TreeNodes(r.S) = {r.S.root}
            /\ r.S.mem[r.S.root].ptr = h
            /\ is_black(r.S.mem, r.S.root)
            /\ r.S.mem[r.S.root].links = <<leaf, leaf>>
            /\ r.S.mem[r.S.root].parent = leaf

\* three elements inserted and all three removed
C15_Witness ==
  /\ ins_ok >= 3
  /\ rem_ok = ins_ok

\* the keys of a sequence of handles
KeysOf(seq) == [i \in 1..Len(seq) |-> KeyOf(seq[i])]

\* C16: after inserting keys 5, 3, 8, 1, 4, 7, 9 in that order into a new
\* tree the in-order walk gives 1, 3, 4, 5, 7, 8, 9; after then removing 5 it
\* gives 1, 3, 4, 7, 8, 9 and the red-black invariants hold; after removing
\* the six others the size is 0.
C16_Scenario ==
  /\ status = "running"
  /\ calls = Len(ScenarioKeys) =>
       KeysOf(InOrder(State)) = <<1, 3, 4, 5, 7, 8, 9>>
  /\ calls = Len(ScenarioKeys) + 1 =>
       /\ KeysOf(InOrder(State)) = <<1, 3, 4, 7, 8, 9>>
       /\ RedBlack(State)
  /\ calls = 2 * Len(ScenarioKeys) => ptree_size(State) = 0

\* the end of the scenario: all seven keys inserted and removed
C16_Witness ==
  /\ calls = 2 * Len(ScenarioKeys)
  /\ ins_ok = Len(ScenarioKeys)
  /\ rem_ok = Len(ScenarioKeys)

\* the handle a search result refers to, NULLPTR for no node
HandleAt(S, it) == IF it = NULL THEN NULLPTR ELSE S.mem[it].ptr

RECURSIVE WalkBack(_, _, _)
\* the handles met from node it on with repeated ptree_it_prev
WalkBack(m, it, fuel) ==
  IF it = NULL THEN <<>>
  ELSE IF fuel = 0 THEN <<NULLPTR>>
  ELSE <<m[it].ptr>> \o WalkBack(m, ptree_it_prev(m, it), fuel - 1)

\* C17: a tree that was emptied with ptree_empty and the new tree twin,
\* given the same insertions and removals since, have the same size and the
\* same in-order contents, and every insertion, removal, search and
\* iteration gives the same result on both.
C17_EmptiedBehavesAsNew ==
  /\ ptree_size(State) = ptree_size(twin)
  /\ InOrder(State) = InOrder(twin)
  /\ WalkBack(mem, ptree_max(State), Fuel(State))
       = WalkBack(twin.mem, ptree_max(twin), Fuel(twin))
  /\ \A h \in Handles :
       /\ ptree_insert(State, h, max_nodes_to_auto_allocate).ret
            = ptree_insert(twin, h, max_nodes_to_auto_allocate).ret
       /\ ptree_remove(State, h).ret = ptree_remove(twin, h).ret
       /\ HandleAt(State, ptree_has(State, h)) = HandleAt(twin, ptree_has(twin, h))
  /\ \A k \in Keys :
       /\ ptree_remove_by_key(State, k).ret = ptree_remove_by_key(twin, k).ret
       /\ ptree_get(State, k) = ptree_get(twin, k)
       /\ HandleAt(State, ptree_get_it(State, k))
            = HandleAt(twin, ptree_get_it(twin, k))

\* no removal since the last ptree_empty, yet the slot table is out of its
\* order of allocation: the tree was emptied with its slots permuted, and
\* has been refilled with three elements or more
C17_Witness ==
  /\ rem_ok = 0
  /\ nodes_num >= 3
  /\ \E p \in 1..nodes_num : nodes[p] # p

\* C18: whatever calls were made, ptree_shrink among them, every slot below
\* the capacity refers to a node that has not been freed, so that no
\* insertion is handed a freed slot and ptree_free frees no node twice.
C18_SlotsBelowCapacityLive ==
  status = "running" =>
    /\ \A p \in 1..allocated_nodes_num :
         /\ p <= Len(nodes)
         /\ nodes[p] \in DOMAIN mem \ freed
    /\ \A h \in Handles :
         ~ptree_insert(State, h, max_nodes_to_auto_allocate).S.ub
    /\ ~ptree_free(State).ub

\* every position below the capacity of S holds a node whose stored index
\* is the position, and the table holds each allocated node once
ArenaDensity(S) ==
  /\ \A p \in 1..S.allocated_nodes_num :
       /\ p <= Len(S.nodes)
       /\ S.nodes[p] \in DOMAIN S.mem \ {leaf}
       /\ get_node_index(S.mem, S.nodes[p]) = p - 1
  /\ {S.nodes[p] : p \in 1..S.allocated_nodes_num} = DOMAIN S.mem \ {leaf}

\* release_node of the active node n moves n and the last active node and
\* nothing else: the other slots and nodes are untouched, and of the two
\* nodes only the stored index changes
ReleaseIsLocal(S, n) ==
  LET T == release_node(S, n)
      last == S.nodes[S.nodes_num]
  IN /\ T.nodes_num = S.nodes_num - 1
     /\ T.nodes[S.nodes_num] = n
     /\ T.nodes[get_node_index(S.mem, n) + 1] = last
     /\ \A p \in DOMAIN S.nodes \ {S.nodes_num, get_node_index(S.mem, n) + 1} :
          T.nodes[p] = S.nodes[p]
     /\ \A a \in DOMAIN S.mem \ {n, last} : T.mem[a] = S.mem[a]
     /\ \A a \in {n, last} :
          [T.mem[a] EXCEPT !.flags.low = 0] = [S.mem[a] EXCEPT !.flags.low = 0]
     /\ [T EXCEPT !.nodes = <<>>, !.mem = <<>>, !.nodes_num = 0]
          = [S EXCEPT !.nodes = <<>>, !.mem = <<>>, !.nodes_num = 0]

\* C19: in every state the arena is dense: each position below the capacity
\* holds the node whose stored index is that position, the table being a
\* permutation of the allocated nodes; and release_node changes the
\* positions and indices of the released and of the last active node only.
C19_ArenaDensity ==
  status = "running" =>
    /\ ArenaDensity(State)
    /\ \A n \in Active : ReleaseIsLocal(State, n)

\* the nodes of the slots from the active count up to the end of the table
FreeRegion == {nodes[p] : p \in (nodes_num + 1)..Len(nodes)}

\* C20: in every state the nodes of the slots 0 .. size-1 are exactly the
\* nodes reachable from the root through child links: no node of the free
\* region is linked into the tree and no node of the tree is in the free
\* region.
C20_ActiveRegionIsTree ==
  status = "running" =>
    /\ nodes_num <= Len(nodes)
    /\ Active = TreeNodes(State)
    /\ Cardinality(Active) = nodes_num
    /\ FreeRegion \cap TreeNodes(State) = {}
    /\ \A n \in TreeNodes(State) :
         /\ mem[n].links[1] \notin FreeRegion
         /\ mem[n].links[2] \notin FreeRegion
         /\ mem[n].parent \notin FreeRegion

\* a removal has left a free slot behind a tree whose root has two children
C20_Witness ==
  /\ status = "running"
  /\ rem_ok >= 1
  /\ nodes_num >= 3
  /\ FreeRegion # {}
  /\ has_child(mem, root, 0)
  /\ has_child(mem, root, 1)
  /\ Active = TreeNodes(State)

\* C21: in every state the active count is at most the recorded capacity
\* and the recorded capacity is at most 2^31 - 1, and no call of
\* ptree_allocate_nodes, whatever its size_t argument, returns with a
\* recorded capacity smaller than the one it found.
C21_CapacityNeverShrinks ==
  status = "running" =>
    /\ nodes_num <= allocated_nodes_num
    /\ allocated_nodes_num <= max_nodes
    /\ \A n \in Requests :
         \/ ptree_allocate_nodes(State, n).aborted
         \/ ptree_allocate_nodes(State, n).allocated_nodes_num
              >= allocated_nodes_num

\* the nodes of the active slots of the tree S
ActiveOf(S) == {S.nodes[i] : i \in 1..S.nodes_num}

\* references to the nodes of the set held in S are good in T: each node is
\* active, linked into the tree, and holds the handle it held in S
StayValid(S, T, held) ==
  /\ held \subseteq ActiveOf(T)
  /\ held \subseteq TreeNodes(T)
  /\ \A n \in held : T.mem[n].ptr = S.mem[n].ptr

StaysValid(S, T, n) == StayValid(S, T, {n})

\* the removal of the element of z releases the node n: z has two children
\* and n holds z's in-order successor
Relocates(m, z, n) ==
  /\ has_child(m, z, 0)
  /\ has_child(m, z, 1)
  /\ get_next_node(m, z) = n

\* the nodes other than z whose element the removal of z's element does
\* not relocate
Kept(S, z) ==
  IF has_child(S.mem, z, 0) /\ has_child(S.mem, z, 1)
    THEN ActiveOf(S) \ {z, get_next_node(S.mem, z)}
    ELSE ActiveOf(S) \ {z}

\* C22: a reference to the node holding an element a stays valid (the node
\* stays active and keeps holding a) across every ptree_insert, growing or
\* not, and across every removal of another element e, by element or by
\* key, unless e's node has two children and a is e's in-order successor.
C22_IteratorStaysValid ==
  status = "running" =>
    /\ \A h \in Handles :
         ptree_insert(State, h, max_nodes_to_auto_allocate).ret # NoRet
           => StayValid(State,
                        ptree_insert(State, h, max_nodes_to_auto_allocate).S,
                        Active)
    /\ \A z \in Active :
         /\ StayValid(State, ptree_remove(State, mem[z].ptr).S, Kept(State, z))
         /\ StayValid(State, ptree_remove_by_key(State, KeyOf(mem[z].ptr)).S,
                      Kept(State, z))

\* the arena is full, so the next insertion of a new element grows it, and
\* some node with two children can be removed while a third node is held
C22_Witness ==
  /\ status = "running"
  /\ nodes_num = allocated_nodes_num
  /\ nodes_num >= 4
  /\ \E h \in Handles :
       /\ ptree_insert(State, h, max_nodes_to_auto_allocate).ret = 1
       /\ ptree_insert(State, h, max_nodes_to_auto_allocate).S.allocated_nodes_num
            > allocated_nodes_num
       /\ \A n \in Active :
            StaysValid(State,
                       ptree_insert(State, h, max_nodes_to_auto_allocate).S, n)
  /\ \E z \in Active : \E n \in Active \ {z} :
       /\ has_child(mem, z, 0)
       /\ has_child(mem, z, 1)
       /\ ~Relocates(mem, z, n)
       /\ ptree_remove(State, mem[z].ptr).ret = 1
       /\ StaysValid(State, ptree_remove(State, mem[z].ptr).S, n)

\* the removal, with outcome r, of the element of the node z of S, z having
\* two children and succ being its in-order successor: z stays and takes
\* the successor's handle, the successor's node goes to the first free slot
RelocatedInto(S, r, z, succ) ==
  /\ r.ret = 1
  /\ r.released = succ
  /\ r.S.nodes_num = S.nodes_num - 1
  /\ r.S.nodes[r.S.nodes_num + 1] = succ
  /\ succ \notin ActiveOf(r.S)
  /\ succ \notin TreeNodes(r.S)
  /\ z \in ActiveOf(r.S)
  /\ z \in TreeNodes(r.S)
  /\ r.S.mem[z].ptr = S.mem[succ].ptr
  /\ S.mem[z].ptr \notin Contents(r.S)

\* C23: when the element removed is held by a node z with two children, z
\* stays active in the tree and afterwards holds the handle of the in-order
\* successor of the removed element, and the node released to the arena is
\* the one that held the successor; a reference to z then reads the
\* successor's handle.
C23_TwoChildRemovalRelocates ==
  status = "running" =>
    \A z \in Active :
      has_child(mem, z, 0) /\ has_child(mem, z, 1) =>
        /\ RelocatedInto(State, ptree_remove(State, mem[z].ptr), z,
                         get_next_node(mem, z))
        /\ RelocatedInto(State, ptree_remove_by_it(State, z), z,
                         get_next_node(mem, z))

\* after a removal, a node with two children whose successor is not its
\* right child holds an element that can be removed
C23_Witness ==
  /\ status = "running"
  /\ rem_ok >= 1
  /\ \E z \in Active :
       /\ has_child(mem, z, 0)
       /\ has_child(mem, z, 1)
       /\ get_next_node(mem, z) # mem[z].links[2]
       /\ ptree_remove(State, mem[z].ptr).S.mem[z].ptr
            = mem[get_next_node(mem, z)].ptr
       /\ ptree_remove(State, mem[z].ptr).S.mem[z].ptr # mem[z].ptr

\* the node the removal with outcome r of S's tree put in the first free
\* slot was unlinked from the tree, and had at most one child that is not
\* the sentinel when the removal began, which is when it is unlinked: the
\* removal writes nothing before it unlinks
DetachedWithOneChild(S, r) ==
  /\ r.ret = 1
  /\ r.S.nodes[r.S.nodes_num + 1] = r.released
  /\ r.released \in TreeNodes(S)
  /\ r.released \notin TreeNodes(r.S)
  /\ ~(has_child(S.mem, r.released, 0) /\ has_child(S.mem, r.released, 1))

\* C24: in every removal the node that is unlinked from the tree and
\* released to the arena has at most one non-sentinel child at the moment
\* it is unlinked.
C24_DetachedHasAtMostOneChild ==
  status = "running" =>
    \A z \in Active :
      /\ DetachedWithOneChild(State, ptree_remove(State, mem[z].ptr))
      /\ DetachedWithOneChild(State, ptree_remove_by_key(State, KeyOf(mem[z].ptr)))
      /\ DetachedWithOneChild(State, ptree_remove_by_it(State, z))

\* a node with two children whose removal detaches another node, one that
\* has a child
C24_Witness ==
  /\ status = "running"
  /\ \E z \in Active :
       /\ has_child(mem, z, 0)
       /\ has_child(mem, z, 1)
       /\ ptree_remove(State, mem[z].ptr).released # z
       /\ has_child(mem, ptree_remove(State, mem[z].ptr).released, 1)
       /\ DetachedWithOneChild(State, ptree_remove(State, mem[z].ptr))

\* C25: no assertion of the library fails in a state reached by insertions
\* and removals: every call of rotate finds the child opposite to the
\* direction of the rotation, and in the rebalancing loop of the removal
\* the sibling w of x is never the sentinel.
C25_NoAssertionFails ==
  status = "running" =>
    /\ \A h \in Handles :
         ptree_insert(State, h, max_nodes_to_auto_allocate).S.asserts
    /\ \A z \in Active :
         /\ ptree_remove(State, mem[z].ptr).S.asserts
         /\ ptree_remove_by_it(State, z).S.asserts

\* an insertion that rotates twice and a removal that rotates twice, each
\* passing its assertions
C25_Witness ==
  /\ status = "running"
  /\ \E h \in Handles :
       /\ ptree_insert(State, h, max_nodes_to_auto_allocate).S.rotations >= 2
       /\ ptree_insert(State, h, max_nodes_to_auto_allocate).S.asserts
  /\ \E z \in Active :
       /\ ptree_remove_by_it(State, z).S.rotations >= 2
       /\ ptree_remove_by_it(State, z).S.asserts

\* C26: after every operation the parent and child links agree: the parent
\* of the root is the sentinel; every child, other than the sentinel, of an
\* active node n has n as its parent; and every active node other than the
\* root is a child of its parent, itself an active node.
C26_ParentChildConsistent ==
  status = "running" =>
    /\ root # leaf => mem[root].parent = leaf
    /\ \A n \in Active : \A dir \in {0, 1} :
         has_child(mem, n, dir) =>
           /\ mem[n].links[dir + 1] \in Active
           /\ mem[mem[n].links[dir + 1]].parent = n
    /\ \A n \in Active \ {root} :
         /\ mem[n].parent \in Active
         /\ is_child(mem, n, 0) \/ is_child(mem, n, 1)

\* a tree of at least 5 nodes, after a removal, in which some node has a
\* grandchild, and whose next insertion of some element rotates
C26_Witness ==
  /\ status = "running"
  /\ rem_ok >= 1
  /\ nodes_num >= 5
  /\ mem[root].parent = leaf
  /\ \E n \in Active \ {root} :
       /\ mem[n].parent # root
       /\ mem[mem[n].parent].parent = root
  /\ \E h \in Handles :
       ptree_insert(State, h, max_nodes_to_auto_allocate).S.rotations >= 1

RECURSIVE Shape(_, _, _)
\* the subtree of n as a term: left subtree, handle, colour, right subtree
Shape(m, n, fuel) ==
  IF n = leaf \/ fuel = 0 THEN <<>>
  ELSE <<Shape(m, m[n].links[1], fuel - 1), m[n].ptr, is_red(m, n),
         Shape(m, m[n].links[2], fuel - 1)>>

\* what a tree shows whatever the addresses of its nodes: its shape with
\* handles and colours, its count and capacity, the handles of its active
\* slots in slot order, and the sentinel's colour and links
Look(S) ==
  [shape |-> Shape(S.mem, S.root, Fuel(S)),
   size |-> ptree_size(S),
   capacity |-> S.allocated_nodes_num,
   slots |-> [p \in 1..S.nodes_num |-> S.mem[S.nodes[p]].ptr],
   sentinel |-> [S.mem[leaf] EXCEPT !.parent = NULL]]

\* C27: operations on one tree do not affect another: two trees that share
\* the static sentinel, whose parent field every removal writes, receive
\* complete calls in any interleaving while the growth cap stays fixed, and
\* each call returns, and leaves in its tree, what it returns and leaves
\* when the tree is alone in its process.
C27_TreesDoNotInterfere ==
  status = "running" =>
    /\ twin.ret = twin.solo_ret
    /\ Look(State) = Look(twin.soloA)
    /\ Look(PairTree(twin.B)) = Look(twin.soloB)

\* a removal on the first tree has run its loop from the sentinel after the
\* second tree wrote the sentinel's parent field, and the second tree holds
\* an element
C27_Witness ==
  /\ status = "running"
  /\ twin.crossed
  /\ twin.B.nodes_num >= 1
  /\ nodes_num >= 2
  /\ twin.ret = 1
  /\ Look(State) = Look(twin.soloA)

\* C28: in every state the shared sentinel is black and has no children:
\* no operation leaves it painted red or with a child link written, the
\* removals whose replacing child x is the sentinel included.
C28_SentinelBlackChildless ==
  status = "running" =>
    /\ is_black(mem, leaf)
    /\ mem[leaf].links = _leaf.links
    /\ mem[leaf].flags = _leaf.flags
    /\ mem[leaf].ptr = _leaf.ptr
    /\ \A z \in Active :
         /\ is_black(ptree_remove_by_it(State, z).S.mem, leaf)
         /\ ptree_remove_by_it(State, z).S.mem[leaf].links = _leaf.links

\* a removal has replaced a node by the sentinel, whose parent field now
\* refers to an active node, and a further removal that rebalances from the
\* sentinel is at hand
C28_Witness ==
  /\ status = "running"
  /\ rem_ok >= 1
  /\ mem[leaf].parent \in Active
  /\ is_black(mem, leaf)
  /\ mem[leaf].links = _leaf.links
  /\ \E z \in Active :
       /\ LoopFromSentinel(State, z)
       /\ ptree_remove_by_it(State, z).S.rotations >= 1

\* the tree T has the root and the active count of S, and every node of S
\* has in T its handle, child links, parent link, colour and stored index
NodesUntouched(S, T) ==
  /\ T.root = S.root
  /\ T.nodes_num = S.nodes_num
  /\ \A n \in DOMAIN S.mem \ {leaf} : T.mem[n] = S.mem[n]
  /\ ActiveOf(T) = ActiveOf(S)
  /\ TreeNodes(T) = TreeNodes(S)

\* C29: ptree_allocate_nodes, and the growth step of ptree_insert, leave
\* every existing node untouched: the root, the active count, and the
\* handle, child links, parent link, colour and stored index of every node
\* allocated before are unchanged, so that references to live nodes stay
\* good across a growth.
C29_GrowthLeavesNodesUntouched ==
  status = "running" =>
    /\ \A k \in 1..MaxAlloc :
         LET T == ptree_allocate_nodes(State, size_t(k))
         IN /\ ~T.aborted
            /\ T.allocated_nodes_num = allocated_nodes_num + k
            /\ NodesUntouched(State, T)
    /\ LET G == add_node_grow(State, max_nodes_to_auto_allocate)
       IN /\ ~G.aborted
          /\ nodes_num >= allocated_nodes_num
               => G.allocated_nodes_num > allocated_nodes_num
          /\ NodesUntouched(State, G)

\* a full arena holding a tree with a red node and at least 3 nodes, after
\* a growth by ptree_allocate_nodes or by an insertion
C29_Witness ==
  /\ status = "running"
  /\ nodes_num = allocated_nodes_num
  /\ nodes_num >= 3
  /\ \E n \in Active : is_red(mem, n)
  /\ add_node_grow(State, max_nodes_to_auto_allocate).allocated_nodes_num
       > allocated_nodes_num
  /\ NodesUntouched(State, add_node_grow(State, max_nodes_to_auto_allocate))

\* the three removals of the stored element e of S end in the same tree:
\* the same root, count, capacity, slot table and node storage
SameRemoval(S, e) ==
  /\ ptree_has(S, e) \in ActiveOf(S)
  /\ S.mem[ptree_has(S, e)].ptr = e
  /\ ptree_remove(S, e).ret = 1
  /\ ptree_remove_by_key(S, KeyOf(e)).ret = 1
  /\ ptree_remove(S, e).S = ptree_remove_by_key(S, KeyOf(e)).S
  /\ ptree_remove(S, e).S = ptree_remove_by_it(S, ptree_has(S, e)).S

\* C30: the three removal entry points are equivalent: for a stored
\* element e with key k, ptree_remove(e), ptree_remove_by_key(k) and
\* ptree_remove_by_it(ptree_has(e)) applied to the same state give the same
\* tree: shape, colours, handles, slot table and count.
C30_RemovalEntryPointsAgree ==
  status = "running" =>
    \A z \in Active : SameRemoval(State, mem[z].ptr)

\* a stored element, held by a node with two children that is not the root,
\* whose removal rotates
C30_Witness ==
  /\ status = "running"
  /\ \E z \in Active \ {root} :
       /\ has_child(mem, z, 0)
       /\ has_child(mem, z, 1)
       /\ SameRemoval(State, mem[z].ptr)
       /\ ptree_remove(State, mem[z].ptr).S.rotations >= 1
       /\ ptree_remove(State, mem[z].ptr).S.nodes_num = nodes_num - 1

\* C31: ptree_has(p) returns a node whose handle compares equal to p
\* exactly when such an element is stored, and NULL otherwise; for a stored
\* element e it returns the node ptree_get_it returns for e's key.  (The
\* call takes the tree as a value and returns a node only: it has no tree
\* to modify.)
C31_HasFindsEqualElement ==
  status = "running" =>
    \A p \in Handles :
      IF \E e \in Contents(State) : cmp(p, e) = 0
        THEN /\ ptree_has(State, p) \in TreeNodes(State)
             /\ cmp(p, mem[ptree_has(State, p)].ptr) = 0
             /\ ptree_has(State, p) = ptree_get_it(State, KeyOf(p))
        ELSE ptree_has(State, p) = NULL

\* a tree of at least 3 nodes in which ptree_has finds, for some handle,
\* another handle that compares equal to it, finds a stored handle below
\* the root, and finds nothing for a third handle
C31_Witness ==
  /\ status = "running"
  /\ nodes_num >= 3
  /\ \E p \in Handles :
       /\ ptree_has(State, p) # NULL
       /\ mem[ptree_has(State, p)].ptr # p
  /\ \E p \in Handles :
       /\ ptree_has(State, p) \notin {NULL, root}
       /\ mem[ptree_has(State, p)].ptr = p
  /\ \E p \in Handles : ptree_has(State, p) = NULL

\* the condition of the rebalancing loop of ptree_insert
InsertLoopGoesOn(S, x) == x # S.root /\ is_red(S.mem, S.mem[x].parent)

RECURSIVE OuterCaseEndsLoop(_, _)
\* the rebalancing loop of ptree_insert is followed from x through its
\* recolouring turns; at the turn that rotates, the loop's condition is
\* false once the outer case is done
OuterCaseEndsLoop(S, x) ==
  IF ~InsertLoopGoesOn(S, x) THEN TRUE
  ELSE LET p == S.mem[x].parent
           g == S.mem[p].parent
           lefty == Bit(is_child(S.mem, p, 0))
           y == S.mem[g].links[lefty + 1]
       IN IF is_red(S.mem, y)
            THEN OuterCaseEndsLoop(insert_recolor(S, p, y, g), g)
          ELSE IF is_child(S.mem, x, lefty)
            THEN ~InsertLoopGoesOn(
                    insert_outer(rotate(S, p, 1 - lefty), p, lefty), p)
          ELSE ~InsertLoopGoesOn(insert_outer(S, x, lefty), x)

\* the tree of ptree_insert(tree, h) when it enters its rebalancing loop
InsertLinked(S, h, maxauto) ==
  insert_attach(add_node(S, h, maxauto), insert_find(S.mem, S.root, h).x,
                insert_find(S.mem, S.root, h).dir)

\* C32: one ptree_insert makes at most 2 rotations and one removal at most
\* 3; after the outer-child case of the insertion the rebalancing loop
\* makes no further turn, and the far-child-red case of the removal leaves
\* its loop by break, which the bound of 3 rotations reflects.
C32_RotationsBounded ==
  status = "running" =>
    /\ \A h \in Handles :
         root # leaf /\ ~insert_find(mem, root, h).found =>
           OuterCaseEndsLoop(
             InsertLinked(State, h, max_nodes_to_auto_allocate),
             added_node(InsertLinked(State, h, max_nodes_to_auto_allocate)))
    /\ \A h \in Handles :
         ptree_insert(State, h, max_nodes_to_auto_allocate).S.rotations <= 2
    /\ \A z \in Active :
         /\ ptree_remove_by_it(State, z).S.rotations <= 3
         /\ ptree_remove(State, mem[z].ptr).S.rotations <= 3

\* a tree built by insertions, some removal from which makes 3 rotations:
\* the sibling is red, then its near child is red, then its far child
C32_Witness ==
  /\ status = "running"
  /\ ins_ok >= 6
  /\ \E z \in Active :
       /\ ptree_remove_by_it(State, z).S.rotations = 3
       /\ ptree_remove_by_it(State, z).S.asserts
       /\ RedBlack(ptree_remove_by_it(State, z).S)

RECURSIVE Height(_, _, _)
\* the number of nodes on the longest path from n down to the sentinel; a
\* path that outlasts its fuel counts one node more than the fuel
Height(m, n, fuel) ==
  IF n = leaf THEN 0
  ELSE IF fuel = 0 THEN 1
  ELSE 1 + (IF Height(m, m[n].links[1], fuel - 1)
                 >= Height(m, m[n].links[2], fuel - 1)
              THEN Height(m, m[n].links[1], fuel - 1)
              ELSE Height(m, m[n].links[2], fuel - 1))

RECURSIVE Depth(_, _, _)
\* the number of nodes on the path from n up to the root, counted like
\* Height
Depth(m, n, fuel) ==
  IF n = leaf THEN 0
  ELSE IF fuel = 0 THEN 1
  ELSE 1 + Depth(m, m[n].parent, fuel - 1)

RECURSIVE Steps(_, _, _)
\* the number of calls of ptree_it_next, the first on node it, up to the one
\* that returns NULL; fuel + 1 when fuel calls have not reached NULL
Steps(m, it, fuel) ==
  IF it = NULL THEN 0
  ELSE IF fuel = 0 THEN 1
  ELSE 1 + Steps(m, ptree_it_next(m, it), fuel - 1)

RECURSIVE StepsBack(_, _, _)
\* the same with ptree_it_prev
StepsBack(m, it, fuel) ==
  IF it = NULL THEN 0
  ELSE IF fuel = 0 THEN 1
  ELSE 1 + StepsBack(m, ptree_it_prev(m, it), fuel - 1)

\* C33: every operation terminates on every tree reached.  The loops that
\* descend (ptree_insert, the removals, search, min, max) follow child links
\* from the root, and every such path ends at the sentinel within size
\* nodes; the loops that ascend (ptree_it_next, ptree_it_prev, the
\* rebalancing loops) follow parent links, and every such path ends at the
\* sentinel within size nodes; every insertion and removal returns; and
\* iterating from ptree_min with ptree_it_next reaches NULL after exactly
\* ptree_size steps.
C33_OperationsTerminate ==
  status = "running" =>
    /\ Height(mem, root, nodes_num) <= nodes_num
    /\ \A n \in Active : Depth(mem, n, nodes_num) <= nodes_num
    /\ Steps(mem, ptree_min(State), nodes_num) = ptree_size(State)
    /\ StepsBack(mem, ptree_max(State), nodes_num) = ptree_size(State)
    /\ \A n \in Active :
         /\ Steps(mem, n, nodes_num) <= nodes_num
         /\ StepsBack(mem, n, nodes_num) <= nodes_num
    /\ \A h \in Handles :
         /\ ptree_insert(State, h, max_nodes_to_auto_allocate).ret \in {0, 1}
         /\ ptree_remove(State, h).ret \in {0, 1}
         /\ ptree_has(State, h) \in Active \cup {NULL}

\* a tree of at least 5 elements, after a removal, in which the iteration
\* from the least element climbs two links at some step
C33_Witness ==
  /\ status = "running"
  /\ rem_ok >= 1
  /\ nodes_num >= 5
  /\ Steps(mem, ptree_min(State), nodes_num) = nodes_num
  /\ \E n \in Active :
       /\ ~has_child(mem, n, 1)
       /\ ptree_it_next(mem, n) # NULL
       /\ ptree_it_next(mem, n) # mem[n].parent

RECURSIVE TwoToThe(_)
TwoToThe(k) == IF k = 0 THEN 1 ELSE 2 * TwoToThe(k - 1)

\* C34: a tree of n elements has height at most 2*log2(n+1), the height
\* being the number of nodes on the longest path from the root to the
\* sentinel; in integers, 2^height <= (n+1)^2.  A search, and the descent of
\* an insertion or of a removal by element, visits the nodes of one such
\* path.  A path of more nodes than the arena holds counts as longer than
\* any tree.
C34_HeightLogarithmic ==
  status = "running" =>
    /\ TwoToThe(Height(mem, root, allocated_nodes_num))
         <= (nodes_num + 1) * (nodes_num + 1)
    /\ \A n \in Active :
         TwoToThe(Depth(mem, n, allocated_nodes_num))
           <= (nodes_num + 1) * (nodes_num + 1)

\* a tree of 6 elements of height 4, the greatest height a red-black tree of
\* 6 elements has
C34_Witness ==
  /\ status = "running"
  /\ nodes_num = 6
  /\ Height(mem, root, allocated_nodes_num) = 4

(***************************************************************************)
(* The flags word of the build with PTREE_STORAGE_64BIT 1.  There          *)
(* ptree_size_int is uint64_t, red_flag is bit 63 and max_nodes is         *)
(* 2^63 - 1.  A 64-bit word is kept as its bit 63 (top), its bits 32..62   *)
(* (high), its bit 31 (b31) and its bits 0..30 (low).                      *)
(***************************************************************************)
\* the greatest int32_t, 2^31 - 1: bits 0..30 set
INT32_MAX == 2147483647

uint64_t(high, b31, low) == [top |-> 0, high |-> high, b31 |-> b31, low |-> low]

is_red64(w) == w.top # 0

paint_red64(w) == [w EXCEPT !.top = 1]
paint_black64(w) == [w EXCEPT !.top = 0]

copy_color64(dst, src) ==
  IF is_red64(src) THEN paint_red64(dst) ELSE paint_black64(dst)

get_node_index64(w) == [w EXCEPT !.top = 0]

\* index | (flags & red_flag), index a uint64_t
set_node_index64(w, index) ==
  [top |-> IF index.top = 1 \/ w.top = 1 THEN 1 ELSE 0,
   high |-> index.high, b31 |-> index.b31, low |-> index.low]

\* the conversion of a uint64_t to int32_t keeps the low 32 bits: the value
\* is low - sign * 2^31
int32_t(v) == [sign |-> v.b31, low |-> v.low]

\* the conversion of an int32_t to uint64_t, which the operator | applies to
\* its int32_t operand, extends the sign
sign_extend(i) ==
  [top |-> i.sign, high |-> IF i.sign = 1 THEN INT32_MAX ELSE 0,
   b31 |-> i.sign, low |-> i.low]

\* --(tree->nodes_num), on a count that is not 0
decrement64(n) ==
  IF n.low > 0 THEN [n EXCEPT !.low = @ - 1]
  ELSE IF n.b31 = 1 THEN [n EXCEPT !.b31 = 0, !.low = INT32_MAX]
  ELSE [n EXCEPT !.high = @ - 1, !.b31 = 1, !.low = INT32_MAX]

\* a < b for two values with bit 63 clear
less64(a, b) ==
  \/ a.high < b.high
  \/ a.high = b.high /\ a.b31 < b.b31
  \/ a.high = b.high /\ a.b31 = b.b31 /\ a.low < b.low

\* release_node seen from the two nodes it writes.  R.nodes_num is the
\* active count, R.node the flags of the node released, R.last the flags of
\* the node of the last active slot, and R.same tells that they are one
\* node.  The result has the flags after the call, the slot that
\* tree->nodes[node_index] = *last_ptr writes, and ub when that slot lies
\* before the table.
release_node64(R) ==
  [nodes_num |-> decrement64(R.nodes_num),
   last |-> set_node_index64(
              IF R.same
                THEN set_node_index64(R.last,
                       sign_extend(int32_t(get_node_index64(R.node))))
                ELSE R.last,
              IF R.same
                THEN decrement64(R.nodes_num)
                ELSE sign_extend(int32_t(get_node_index64(R.node)))),
   node |-> set_node_index64(
              IF R.same
                THEN set_node_index64(R.last,
                       sign_extend(int32_t(get_node_index64(R.node))))
                ELSE R.node,
              decrement64(R.nodes_num)),
   same |-> R.same,
   slot |-> int32_t(get_node_index64(R.node)),
   ub |-> int32_t(get_node_index64(R.node)).sign = 1]

\* active counts of 1, 2, 3, 2^31 - 1, 2^31, 2^31 + 1, 2^31 + 2, 2^32,
\* 2^32 + 1 and 2^32 + 2^31 + 1 elements
Counts64 ==
  {uint64_t(0, 0, 1), uint64_t(0, 0, 2), uint64_t(0, 0, 3),
   uint64_t(0, 0, INT32_MAX), uint64_t(0, 1, 0), uint64_t(0, 1, 1),
   uint64_t(0, 1, 2), uint64_t(1, 0, 0), uint64_t(1, 0, 1),
   uint64_t(1, 1, 1)}

\* slot indices 0, 1, 2, 2^31 - 2, 2^31 - 1, 2^31, 2^31 + 1, 2^32 - 1, 2^32
\* and 2^32 + 2^31
Indices64 ==
  {uint64_t(0, 0, 0), uint64_t(0, 0, 1), uint64_t(0, 0, 2),
   uint64_t(0, 0, INT32_MAX - 1), uint64_t(0, 0, INT32_MAX),
   uint64_t(0, 1, 0), uint64_t(0, 1, 1), uint64_t(0, 1, INT32_MAX),
   uint64_t(1, 0, 0), uint64_t(1, 1, 0)}

\* A tree of the 64-bit build that holds n elements, seen from one of its
\* nodes, stored at slot i, and from the node of its last active slot; the
\* rest of the tree is not kept.  A tree of one element has a black root,
\* and of the two nodes of a tree of two elements one is red.
Init64 ==
  \E n \in Counts64, i \in Indices64, cn \in {0, 1}, cl \in {0, 1} :
    /\ less64(i, n)
    /\ (i = decrement64(n)) => cn = cl
    /\ n = uint64_t(0, 0, 1) => cn = 0
    /\ (n = uint64_t(0, 0, 2) /\ i # decrement64(n)) => cn # cl
    /\ root = ptree_new(0).root
    /\ nodes_num = ptree_new(0).nodes_num
    /\ allocated_nodes_num = ptree_new(0).allocated_nodes_num
    /\ nodes = ptree_new(0).nodes
    /\ mem = ptree_new(0).mem
    /\ freed = {}
    /\ max_nodes_to_auto_allocate = 0
    /\ status = "running"
    /\ refset = {}
    /\ ins_ok = 0
    /\ rem_ok = 0
    /\ calls = 0
    /\ reserved = 0
    /\ twin = [nodes_num |-> n,
               node |-> [i EXCEPT !.top = cn],
               last |-> [decrement64(n) EXCEPT !.top = cl],
               same |-> i = decrement64(n),
               slot |-> int32_t(i),
               ub |-> FALSE]

\* release_node(tree, node)
ReleaseNode64 ==
  /\ calls = 0
  /\ calls' = 1
  /\ twin' = release_node64(twin)
  /\ UNCHANGED <<root, nodes_num, allocated_nodes_num, nodes, mem, freed,
                 max_nodes_to_auto_allocate, status, refset, ins_ok, rem_ok,
                 reserved>>

Next64 == ReleaseNode64

Spec64 == Init64 /\ [][Next64]_vars

\* C35: colour and slot index share the flags word without interfering, in
\* the 64-bit build: paint_red, paint_black and copy_color leave the stored
\* index of a node as it is, and the calls of set_node_index that
\* release_node makes leave the colour of the released node and of the
\* node of the last active slot as it is and store an index whose colour
\* bit is clear, the index of the slot the node is moved to.
C35_ColorAndIndexIndependent ==
  calls = 0 =>
    /\ get_node_index64(paint_red64(twin.node)) = get_node_index64(twin.node)
    /\ get_node_index64(paint_black64(twin.node))
         = get_node_index64(twin.node)
    /\ get_node_index64(copy_color64(twin.node, twin.last))
         = get_node_index64(twin.node)
    /\ is_red64(release_node64(twin).node) = is_red64(twin.node)
    /\ is_red64(release_node64(twin).last) = is_red64(twin.last)
    /\ get_node_index64(release_node64(twin).node) = decrement64(twin.nodes_num)
    /\ ~twin.same =>
         get_node_index64(release_node64(twin).last)
           = get_node_index64(twin.node)

\* C36: the node add_node returns, be it of a slot that was just allocated or
\* of a slot of the free region that still has the contents of an element
\* removed, holds the handle given, has both child links and its parent link
\* at the sentinel, is red, and has as stored index the active count before
\* the call; a node taken from the free region is the one of the first free
\* slot.
C36_AddNodeInitialisesNode ==
  status = "running" =>
    \A h \in Handles :
      LET T == add_node(State, h, max_nodes_to_auto_allocate) IN
        /\ ~T.aborted
        /\ ~T.ub
        /\ T.nodes_num = nodes_num + 1
        /\ added_node(T) \in DOMAIN T.mem \ (T.freed \cup {leaf})
        /\ T.mem[added_node(T)].ptr = h
        /\ T.mem[added_node(T)].links = <<leaf, leaf>>
        /\ T.mem[added_node(T)].parent = leaf
        /\ is_red(T.mem, added_node(T))
        /\ get_node_index(T.mem, added_node(T)) = nodes_num
        /\ nodes_num < allocated_nodes_num =>
             added_node(T) = nodes[nodes_num + 1]

\* the first free slot has the node of an element removed: black, with a
\* handle, a child link and a parent link that are not the sentinel's
C36_Witness ==
  /\ status = "running"
  /\ rem_ok >= 1
  /\ nodes_num >= 2
  /\ nodes_num < allocated_nodes_num
  /\ mem[nodes[nodes_num + 1]].ptr # NULLPTR
  /\ mem[nodes[nodes_num + 1]].links # <<leaf, leaf>>
  /\ mem[nodes[nodes_num + 1]].parent # leaf
  /\ is_black(mem, nodes[nodes_num + 1])
  /\ \E h \in Handles :
       add_node(State, h, max_nodes_to_auto_allocate).mem[nodes[nodes_num + 1]].ptr
         = h

====
